---- MODULE Spec2Model ----
(***************************************************************************)
(* Workflow execution engine of automato-back.                             *)
(*                                                                         *)
(*   src/WorkflowProcessor.ts   WorkflowProcessor (result store, run loop, *)
(*                              step executor, graph navigation) and       *)
(*                              validateWorkflow                           *)
(*   src/unnamed/part_008       the HTTP server: the running registry      *)
(*                              runningWorkflows, the instance map and the *)
(*                              execute / stop / iniciar / parar handlers  *)
(*                                                                         *)
(* Node runs one macrotask at a time; a continuation of an await on an     *)
(* already settled promise is a microtask and runs before the next         *)
(* macrotask.  Every action below is therefore one macrotask together with *)
(* the microtasks it queues: a handler or a completion callback, followed  *)
(* by the run loop up to its next real suspension (an action dispatched to *)
(* the browser, or a retry delay timer).                                   *)
(***************************************************************************)
EXTENDS Integers, Sequences, FiniteSets, TLC

\* ------------------------------------------------------------------ bounds
MaxRuns == 2
MaxSteps == 2
MaxAttempts == 2
MaxItems == 2

\* --------------------------------------------------------------- universes
WorkflowIds == {"w1", "w2"}
StepIds == {"s1", "s2", "s3", "s4"}
Instances == {"ig"}
NoStep == "none"

\* result.error values
NoError == "undefined"
Sentinel == "Workflow interrompido pelo usuario"
PageInactiveError == "Pagina do usuario nao esta ativa"
InstanceMissingError == "Instancia do Instagram nao encontrada"
TimeoutError == "Timeout do workflow excedido"
ActionError == "action failed"

\* action types accepted by validateWorkflow
validTypes ==
  {"sendDirectMessage", "likePost", "followUser", "unfollowUser", "monitorMessages",
   "monitorPosts", "comment", "delay", "startMessageProcessor", "stopMessageProcessor",
   "uploadPhoto", "if", "forEach"}

\* ------------------------------------------------------------------ values
\* JavaScript values, tagged by type.  A string is the sequence of its
\* characters, an array the sequence of its elements, an object the function
\* from its own keys (TLA+ strings) to its values.
Undefined == [t |-> "undefined", v |-> 0]
Null == [t |-> "null", v |-> 0]
Bool(b) == [t |-> "boolean", v |-> b]
Num(n) == [t |-> "number", v |-> n]
Str(cs) == [t |-> "string", v |-> cs]
Arr(es) == [t |-> "array", v |-> es]
Obj(f) == [t |-> "object", v |-> f]

\* ToBoolean
Truthy(x) ==
  CASE x.t \in {"undefined", "null"} -> FALSE
    [] x.t = "boolean" -> x.v
    [] x.t = "number" -> x.v # 0
    [] x.t = "string" -> x.v # <<>>
    [] OTHER -> TRUE

\* `value && typeof value === 'object'`
IsObject(x) == x.t \in {"array", "object"}

\* a sequence of characters as a TLA+ string
RECURSIVE Join(_)
Join(cs) == IF cs = <<>> THEN "" ELSE Head(cs) \o Join(Tail(cs))

\* the decimal property key of array index i (0-based)
IndexKey(i) == <<"0", "1", "2", "3", "4", "5", "6", "7", "8", "9">>[i + 1]

\* `key in value` for an object or an array: own keys, an array's indices
\* and its length
HasKey(x, k) ==
  IF x.t = "object" THEN k \in DOMAIN x.v
  ELSE k = "length" \/ \E i \in 1..Len(x.v) : i <= 10 /\ IndexKey(i - 1) = k

\* `value[key]` where HasKey(value, key)
GetKey(x, k) ==
  IF x.t = "object" THEN x.v[k]
  ELSE IF k = "length" THEN Num(Len(x.v))
  ELSE x.v[CHOOSE i \in 1..Len(x.v) : IndexKey(i - 1) = k]

\* String.prototype.startsWith / endsWith on character sequences
StartsWith(cs, pre) == Len(cs) >= Len(pre) /\ SubSeq(cs, 1, Len(pre)) = pre
EndsWith(cs, suf) == Len(cs) >= Len(suf) /\ SubSeq(cs, Len(cs) - Len(suf) + 1, Len(cs)) = suf

\* faulty variant: the path between the markers is not trimmed
TrimNothing(cs) == cs

\* String.prototype.trim
RECURSIVE Trim(_)
Trim(cs) ==
  IF cs = <<>> THEN cs
  ELSE IF Head(cs) = " " THEN Trim(Tail(cs))
  ELSE IF cs[Len(cs)] = " " THEN Trim(SubSeq(cs, 1, Len(cs) - 1))
  ELSE cs

\* String.prototype.split('.'): the pieces between the dots, at least one
RECURSIVE Split(_)
Split(cs) ==
  IF \E i \in 1..Len(cs) : cs[i] = "."
  THEN LET d == CHOOSE i \in 1..Len(cs) : cs[i] = "." /\ \A j \in 1..(i - 1) : cs[j] # "."
       IN <<SubSeq(cs, 1, d - 1)>> \o Split(SubSeq(cs, d + 1, Len(cs)))
  ELSE <<cs>>

ItemChars == <<"a", "b", "c", "d", "e">>

Open == <<"{", "{">>
Close == <<"}", "}">>
ItemWord == <<"i", "t", "e", "m">>
ItemDot == <<"i", "t", "e", "m", ".">>

\* the `for (const key of keys)` loops of resolveValue
RECURSIVE WalkKeys(_, _)
WalkKeys(value, keys) ==
  IF keys = <<>> THEN value
  ELSE IF Truthy(value) /\ IsObject(value) /\ HasKey(value, Join(Head(keys)))
       THEN WalkKeys(GetKey(value, Join(Head(keys))), Tail(keys))
       ELSE Null

\* WorkflowProcessor.resolveValue(path, context, item)
resolveValue(path, context, item) ==
  IF path.t # "string" \/ path.v = <<>> THEN path
  ELSE IF ~StartsWith(path.v, Open) \/ ~EndsWith(path.v, Close) THEN path
  ELSE LET cleanPath == Trim(SubSeq(path.v, 3, Len(path.v) - 2))
       IN IF cleanPath = ItemWord /\ item # Undefined THEN item
          ELSE IF StartsWith(cleanPath, ItemDot) /\ item # Undefined
               THEN WalkKeys(item, Split(SubSeq(cleanPath, 6, Len(cleanPath))))
               ELSE WalkKeys(context, Split(cleanPath))

\* ------------------------------------------------------ workflow documents
NoCond == [type |-> "none", previousStep |-> NoStep]

\* an action and the parameters the engine itself reads: `list` and `actions`
\* of a forEach, `variable`, `operator` and `value` of an if (Undefined or ""
\* where the document leaves a parameter out)
Action(t) ==
  [type |-> t, list |-> Undefined, actions |-> <<>>, variable |-> Undefined,
   operator |-> "", value |-> Undefined]
ForEachAction(list, actions) == [Action("forEach") EXCEPT !.list = list, !.actions = actions]
IfAction(variable, operator, value) ==
  [Action("if") EXCEPT !.variable = variable, !.operator = operator, !.value = value]

\* maxAttempts = 0 stands for a step without `retry`
Step(id, actions, cond, maxAttempts) ==
  [id |-> id, actions |-> actions, condition |-> cond, maxAttempts |-> maxAttempts]

Edge(s, t, h) == [source |-> s, target |-> t, sourceHandle |-> h]

\* stopOnError is "absent", "true" or "false"; timeout = 0 stands for no timeout
Workflow(id, steps, edges, stopOnError, timeout) ==
  [id |-> id, steps |-> steps, edges |-> edges, stopOnError |-> stopOnError,
   timeout |-> timeout]

NoWorkflow == Workflow("", <<>>, <<>>, "absent", 0)

\* ------------------------------------------------------------ step results
NoResult == [kind |-> "none", attempts |-> 0, results |-> <<>>, error |-> NoError]
SkippedResult == [kind |-> "skipped", attempts |-> 0, results |-> <<>>, error |-> NoError]
OkResult(attempts, stepResults) ==
  [kind |-> "ok", attempts |-> attempts, results |-> stepResults, error |-> NoError]
FailedResult(attempts, stepResults) ==
  [kind |-> "failed", attempts |-> attempts, results |-> stepResults, error |-> ActionError]

\* `stepResult.success`, `stepResult.skipped` as the run loop reads them
IsSuccess(sr) == sr.kind = "ok"
IsSkipped(sr) == sr.kind = "skipped"

\* ---------------------------------------------------------- WorkflowResult
NewResult ==
  [success |-> FALSE, executedSteps |-> <<>>, failedSteps |-> <<>>,
   results |-> [s \in StepIds |-> NoResult], error |-> NoError, endTime |-> "start"]

\* the temporary result stopWorkflow stores when the store has no entry
TempResult == [NewResult EXCEPT !.error = Sentinel]

\* references held by the result store: 0 = no entry, r in 1..MaxRuns = the
\* object created by run r, TempRef = a temporary object created by stopWorkflow
TempRef == MaxRuns + 1

VARIABLES
  runningWorkflows,   \* part_008: Map workflowId -> promise (0 = absent, r = run r's promise)
  activeInstances,    \* part_008: keys of the instance map
  pageOpen,           \* instances whose browser page is still open
  results,            \* WorkflowProcessor.results: workflowId -> reference
  heap,               \* the WorkflowResult objects created by executeWorkflow, by run
  runs,               \* the pending executeWorkflow calls, by run
  nextRun,            \* number of the next executeWorkflow call
  lastEvent,          \* what the macrotask that led to this state answered or finalized
  probe               \* a call of a pure function: its arguments and, once made, its value

vars == <<runningWorkflows, activeInstances, pageOpen, results, heap, runs, nextRun, lastEvent,
          probe>>

\* the server's variables
server == <<runningWorkflows, activeInstances, pageOpen, results, heap, runs, nextRun, lastEvent>>

NoProbe == [op |-> "none"]

Runs == 1..MaxRuns

\* the locals of a forEach in progress: the list, the nested actions, the
\* item (1-based) and nested action being processed, forEachResults (`done`)
\* and itemResults (`item`)
NoForEach ==
  [active |-> FALSE, list |-> <<>>, actions |-> <<>>, i |-> 0, j |-> 0, done |-> <<>>,
   item |-> <<>>]

IdleRun ==
  [wf |-> NoWorkflow, inst |-> "", pc |-> "idle", cur |-> NoStep, visited |-> {},
   visitOrder |-> <<>>, attempts |-> 0, ai |-> 0, stepResults |-> <<>>,
   timer |-> "none", interrupted |-> FALSE, stopMark |-> 0, anyFailed |-> FALSE,
   preStopped |-> FALSE, stopAt |-> [attempts |-> 0, ai |-> 0, item |-> 0],
   dispatched |-> [s \in StepIds |-> 0],
   fe |-> NoForEach, unknownDispatched |-> FALSE, nestedFailed |-> {},
   log |-> <<>>, threw |-> {},
   resolved |-> Undefined, nestedLog |-> <<>>]

\* A returned executeWorkflow call keeps no state
DoneRun == [IdleRun EXCEPT !.pc = "done"]

\* the `run` and `res` of an event in which no call returned
NoSnapshot == [pc |-> "none"]

\* lastEvent records the HTTP response of the workflow route that was served
\* (route, code) and, when an executeWorkflow call returned in this macrotask,
\* that call (its number `ref`, its local state `run` at the return and the
\* WorkflowResult `res` it returned)
NoEvent ==
  [route |-> "none", code |-> 0, finalized |-> FALSE, ref |-> 0, run |-> NoSnapshot,
   res |-> NoSnapshot]
Response(route, code) == [NoEvent EXCEPT !.route = route, !.code = code]
Returned(ev, r, m) ==
  IF m.run.pc = "done"
  THEN [ev EXCEPT !.finalized = TRUE, !.ref = r, !.run = m.run, !.res = m.res]
  ELSE ev

\* ------------------------------------------------------------- validation
\* validateWorkflow: id and steps present, steps and actions non-empty,
\* every top-level action type known
validateWorkflow(w) ==
  /\ w.id # ""
  /\ Len(w.steps) > 0
  /\ \A i \in 1..Len(w.steps) :
       /\ w.steps[i].id # ""
       /\ Len(w.steps[i].actions) > 0
       /\ \A j \in 1..Len(w.steps[i].actions) :
            w.steps[i].actions[j].type \in validTypes

\* ------------------------------------------------------- graph navigation
Range(s) == {s[i] : i \in 1..Len(s)}

\* Array.findIndex on step ids, 1-based; 0 when there is none
FindIndex(steps, id) ==
  IF \E i \in 1..Len(steps) : steps[i].id = id
  THEN CHOOSE i \in 1..Len(steps) :
         steps[i].id = id /\ \A j \in 1..(i - 1) : steps[j].id # id
  ELSE 0

\* stepMap = new Map(steps.map(s => [s.id, s])): the last step of an id wins
HasStep(w, id) == \E i \in 1..Len(w.steps) : w.steps[i].id = id
StepById(w, id) ==
  w.steps[CHOOSE i \in 1..Len(w.steps) :
            w.steps[i].id = id /\ \A j \in (i + 1)..Len(w.steps) : w.steps[j].id # id]

\* faulty variant: the last step without an incoming edge is taken
findInitialStepLast(w) ==
  IF Len(w.edges) = 0
  THEN IF Len(w.steps) > 0 THEN w.steps[1].id ELSE NoStep
  ELSE LET incoming == {w.edges[i].target : i \in 1..Len(w.edges)}
           free == {i \in 1..Len(w.steps) : w.steps[i].id \notin incoming}
       IN IF free # {}
          THEN w.steps[CHOOSE i \in free : \A j \in free : i >= j].id
          ELSE IF Len(w.steps) > 0 THEN w.steps[1].id ELSE NoStep

\* lines 901-912
findInitialStep(w) ==
  IF Len(w.edges) = 0
  THEN IF Len(w.steps) > 0 THEN w.steps[1].id ELSE NoStep
  ELSE LET incoming == {w.edges[i].target : i \in 1..Len(w.edges)}
           free == {i \in 1..Len(w.steps) : w.steps[i].id \notin incoming}
       IN IF free # {}
          THEN w.steps[CHOOSE i \in free : \A j \in free : i <= j].id
          ELSE IF Len(w.steps) > 0 THEN w.steps[1].id ELSE NoStep

\* executeStepWithContext line 993: the step's `result` is the first action's
\* result when stepResults has one entry, else the stepResults array (of which
\* the model keeps each entry's result and success)
EntryValues(entries) ==
  [i \in 1..Len(entries) |-> Obj([result |-> entries[i].result, success |-> Bool(TRUE)])]
\* faulty variant: `result` is the stepResults array whatever its length
ResultOfList(entries) == Arr(EntryValues(entries))

\* faulty variant: `result` is the result of the first action of the step
ResultOfFirst(entries) == entries[1].result

ResultOf(entries) ==
  IF Len(entries) = 1 THEN entries[1].result ELSE Arr(EntryValues(entries))

\* `stepResult.result && stepResult.result.conditionResult !== undefined`
HasConditionResult(sr) ==
  /\ sr.kind = "ok"
  /\ LET x == ResultOf(sr.results)
     IN /\ x.t = "object"
        /\ "conditionResult" \in DOMAIN x.v
        /\ x.v.conditionResult.t # "undefined"

\* faulty variant: the edge label is matched against success only
EdgeMatchesBySuccess(e, sr) ==
  \/ IsSuccess(sr) /\ e.sourceHandle = "onTrue"
  \/ ~IsSuccess(sr) /\ e.sourceHandle = "onFalse"
  \/ e.sourceHandle = "none"

\* the edge predicate of outgoingEdges.find in getNextStep; sourceHandle
\* "none" stands for an edge without sourceHandle
EdgeMatches(e, sr) ==
  \/ IF HasConditionResult(sr)
     THEN \/ Truthy(ResultOf(sr.results).v.conditionResult) /\ e.sourceHandle = "onTrue"
          \/ ~Truthy(ResultOf(sr.results).v.conditionResult) /\ e.sourceHandle = "onFalse"
     ELSE \/ IsSuccess(sr) /\ e.sourceHandle = "onTrue"
          \/ ~IsSuccess(sr) /\ e.sourceHandle = "onFalse"
  \/ e.sourceHandle = "none"

\* faulty variant: the sequential successor stops one step before the end
getNextStepShort(w, cur, sr) ==
  LET idx == FindIndex(w.steps, cur)
  IN IF idx + 1 < Len(w.steps) THEN w.steps[idx + 1].id ELSE NoStep

getNextStep(w, cur, sr) ==
  IF Len(w.edges) = 0
  THEN LET idx == FindIndex(w.steps, cur)
       IN IF idx < Len(w.steps) THEN w.steps[idx + 1].id ELSE NoStep
  ELSE LET out == SelectSeq(w.edges, LAMBDA e : e.source = cur)
           hit == {i \in 1..Len(out) : EdgeMatches(out[i], sr)}
       IN IF Len(out) = 0 THEN NoStep
          ELSE IF Len(out) > 1
               THEN IF hit # {}
                    THEN out[CHOOSE i \in hit : \A j \in hit : i <= j].target
                    ELSE out[1].target
               ELSE out[1].target

\* --------------------------------------------------------- step conditions
\* faulty variant: a condition lets every step run
evaluateConditionAlways(cond, previousResults) == TRUE

\* faulty variant: a step that was skipped counts as one that failed
evaluateConditionSkipFails(cond, previousResults) ==
  IF cond.type = "always" THEN TRUE
  ELSE IF cond.previousStep = NoStep THEN TRUE
  ELSE LET prev == previousResults[cond.previousStep]
       IN IF prev.kind = "none" THEN FALSE
          ELSE IF cond.type = "success" THEN prev.kind = "ok"
          ELSE IF cond.type = "failure" THEN prev.kind \in {"failed", "skipped"}
          ELSE FALSE

evaluateCondition(cond, previousResults) ==
  IF cond.type = "always" THEN TRUE
  ELSE IF cond.previousStep = NoStep THEN TRUE
  ELSE LET prev == previousResults[cond.previousStep]
       IN IF prev.kind = "none" THEN FALSE
          ELSE IF cond.type = "success" THEN prev.kind = "ok"
          ELSE IF cond.type = "failure" THEN prev.kind = "failed"
          ELSE FALSE

\* faulty variant: a step is never retried
MaxAttemptsOfOne(step) == 1

\* `step.retry?.maxAttempts || 1`
MaxAttemptsOf(step) == IF step.maxAttempts = 0 THEN 1 ELSE step.maxAttempts

\* faulty variant: an absent stopOnError lets the run continue
StopOnErrorOnlyIfTrue(w) == w.stopOnError = "true"

\* `workflow.config?.stopOnError !== false`
StopOnError(w) == w.stopOnError # "false"


\* ------------------------------------------------------------ the run loop
\* A machine state m = [run |-> the call's local state, res |-> its
\* WorkflowResult object].  `sen` is the value of the interruption test of the
\* loop (lines 794-795), which reads the store, not the call's own object.

\* faulty variant: failed steps do not count against success
SuccessPredicateAnyExecuted(res) == Len(res.executedSteps) > 0

\* line 866: result.success
SuccessPredicate(res) == Len(res.failedSteps) = 0 /\ Len(res.executedSteps) > 0

\* lines 874-878: endTime stamped; the caller stores the object
Finalize(m) == [m EXCEPT !.run.pc = "done", !.res.endTime = "final"]

\* lines 860-866: leaving the while loop normally
LoopExit(m) ==
  Finalize([m EXCEPT
    !.run.timer = IF @ = "armed" THEN "cleared" ELSE @,
    !.res.success = SuccessPredicate(m.res)])

\* lines 868-872: an exception of ensureInstagramInstance / isPageActive
Abort(m, error) == Finalize([m EXCEPT !.res.error = error])

\* ---- executeAction, for the action types the engine itself interprets
\* lines 222-230: what resolveActionParams stores for one key: a string is
\* resolved, the elements of an array that are strings are resolved, any
\* other value is passed on
resolveParam(value, context, item) ==
  IF value.t = "string" THEN resolveValue(value, context, item)
  ELSE IF value.t = "array"
       THEN Arr([i \in 1..Len(value.v) |->
                   IF value.v[i].t = "string" THEN resolveValue(value.v[i], context, item)
                   ELSE value.v[i]])
       ELSE value

\* resolveActionParams on the parameters the model keeps (the elements of
\* `actions` are objects and stay as they are)
resolveActionParams(a, context, item) ==
  [a EXCEPT !.list = resolveParam(@, context, item),
            !.variable = resolveParam(@, context, item),
            !.value = resolveParam(@, context, item)]

\* `x || ''`
OrEmpty(x) == IF Truthy(x) THEN x ELSE Str(<<>>)

\* `a === b`; two arrays or objects are taken to be distinct objects
StrictEquals(a, b) == a.t = b.t /\ a.t \notin {"array", "object"} /\ a.v = b.v

\* the switch on the operator of an if (lines 510-528)
ConditionResult(variable, operator, value) ==
  CASE operator = "isNotEmpty" ->
         /\ variable.t \notin {"null", "undefined"}
         /\ ~(variable.t = "string" /\ variable.v = <<>>)
         /\ (variable.t = "array" => Len(variable.v) > 0)
    [] operator = "isEmpty" ->
         \/ variable.t \in {"null", "undefined"}
         \/ variable.t = "string" /\ variable.v = <<>>
         \/ variable.t = "array" /\ Len(variable.v) = 0
    [] operator = "equals" -> StrictEquals(variable, value)
    [] operator = "greaterThan" ->
         variable.t = "number" /\ value.t = "number" /\ variable.v > value.v
    [] operator = "lessThan" ->
         variable.t = "number" /\ value.t = "number" /\ variable.v < value.v
    [] OTHER -> FALSE

\* executeAction case 'if' (lines 502-538) on resolved parameters
IfResult(a, context) ==
  LET variable == resolveValue(OrEmpty(a.variable), context, Undefined)
      operator == IF a.operator = "" THEN "isNotEmpty" ELSE a.operator
  IN Obj([success |-> Bool(TRUE),
          conditionResult |-> Bool(ConditionResult(variable, operator, a.value)),
          variable |-> variable, value |-> a.value])

\* the value a forEach returns (lines 593-597) for its forEachResults
ForEachValue(done) ==
  Obj([success |-> Bool(TRUE),
       processedItems |-> Num(Len(done)),
       results |-> Arr([i \in 1..Len(done) |->
                     Obj([item |-> done[i].item,
                          index |-> Num(done[i].index),
                          results |-> Arr([j \in 1..Len(done[i].results) |->
                                        Obj([success |-> Bool(done[i].results[j].success)])])])])])

\* a folded StepResult as the context shows it
StepValue(sr) ==
  CASE sr.kind = "ok" ->
         Obj([success |-> Bool(TRUE), attempts |-> Num(sr.attempts),
              results |-> Arr(EntryValues(sr.results)), result |-> ResultOf(sr.results)])
    [] sr.kind = "failed" ->
         Obj([success |-> Bool(FALSE), attempts |-> Num(sr.attempts),
              results |-> Arr(EntryValues(sr.results))])
    [] OTHER -> Obj([skipped |-> Bool(TRUE)])

\* faulty variant: the context is the one of the start of the run
ContextAtStart(previousResults) == Obj([steps |-> Obj([s \in {} |-> Null])])

\* `{ steps: previousResults }`
ContextOf(previousResults) ==
  Obj([steps |-> Obj([s \in {x \in StepIds : previousResults[x].kind # "none"} |->
                        StepValue(previousResults[s])])])

RECURSIVE RunLoop(_, _)
RECURSIVE AfterStep(_, _, _)
RECURSIVE BeginAttempt(_, _)
RECURSIVE StartAction(_, _)
RECURSIVE ForEachNext(_, _)
RECURSIVE ActionResolved(_, _, _)
RECURSIVE ActionRejected(_, _)

\* lines 974-977: a new attempt starts with the step's first action
\* faulty variant: a retry attempt resumes at the action that threw
BeginAttemptResuming(m, sen) ==
  StartAction([m EXCEPT !.run.attempts = @ + 1,
                        !.run.ai = IF m.run.attempts = 0 THEN 1 ELSE @], sen)

BeginAttempt(m, sen) ==
  StartAction([m EXCEPT !.run.attempts = @ + 1, !.run.ai = 1], sen)

\* faulty variant: a list that is no array is taken as the empty list
ForEachListCoerced(action, context) ==
  LET list == resolveValue(OrEmpty(action.list), context, Undefined)
  IN IF list.t = "array" THEN list ELSE Arr(<<>>)

\* line 541: the list of a forEach
ForEachList(action, context) == resolveValue(OrEmpty(action.list), context, Undefined)

\* lines 980-985: executeAction is called for action `ai` of the step.  An if
\* returns at once; a forEach resolves its list and starts on the items; an
\* unknown type throws (lines 713-715); any other action is awaited
StartAction(m, sen) ==
  LET step == StepById(m.run.wf, m.run.cur)
      context == ContextOf(m.res.results)
      action == resolveActionParams(step.actions[m.run.ai], context, Undefined)
      \* history: the calls of executeAction made for the current step, as
      \* <<attempt, index of the action>>
      called == [m EXCEPT !.run.dispatched[m.run.cur] = @ + 1,
                          !.run.log = Append(@, <<m.run.attempts, m.run.ai>>),
                          \* and what this call got as params.variable
                          !.run.resolved = action.variable]
  IN CASE action.type = "if" -> ActionResolved(called, IfResult(action, context), sen)
       [] action.type = "forEach" ->
            LET list == ForEachList(action, context)
            IN IF list.t # "array" THEN ActionRejected(called, sen)
               ELSE ForEachNext([called EXCEPT !.run.fe =
                      [active |-> TRUE, list |-> list.v, actions |-> action.actions,
                       i |-> 1, j |-> 1, done |-> <<>>, item |-> <<>>],
                      !.run.nestedFailed = {}, !.run.nestedLog = <<>>], sen)
       [] action.type \notin validTypes \cup {"if", "forEach"} ->
            ActionRejected([called EXCEPT !.run.unknownDispatched = TRUE], sen)
       [] OTHER -> [called EXCEPT !.run.pc = "action"]

\* faulty variant: the nested params are resolved against `{ steps: {} }`
NestedParamsEmptyContext(m) ==
  resolveActionParams(m.run.fe.actions[m.run.fe.j], ContextAtStart(m.res.results),
                      m.run.fe.list[m.run.fe.i])

\* lines 562-566: the params of the nested action about to be called, resolved
\* against the context of the forEach and the current item
NestedParams(m) ==
  resolveActionParams(m.run.fe.actions[m.run.fe.j], ContextOf(m.res.results),
                      m.run.fe.list[m.run.fe.i])

\* lines 554-589: the loops of a forEach up to the next awaited nested action.
\* A nested if returns at once, a nested action of unknown type throws at
\* once and is recorded as failed; any other nested action is awaited
ForEachNext(m, sen) ==
  LET fe == m.run.fe
  IN IF fe.i > Len(fe.list)
     THEN ActionResolved([m EXCEPT !.run.fe = NoForEach], ForEachValue(fe.done), sen)
     ELSE IF fe.j > Len(fe.actions)
     THEN ForEachNext([m EXCEPT
            !.run.fe.done = Append(@, [item |-> fe.list[fe.i], index |-> fe.i - 1,
                                       results |-> fe.item]),
            !.run.fe.i = @ + 1, !.run.fe.j = 1, !.run.fe.item = <<>>], sen)
     ELSE LET sub == NestedParams(m)
              \* history: the params each nested call of this forEach got
              called == [m EXCEPT !.run.nestedLog =
                          Append(@, [i |-> fe.i, j |-> fe.j, variable |-> sub.variable,
                                     value |-> sub.value])]
          IN CASE sub.type = "if" ->
                    ForEachNext([called EXCEPT
                      !.run.fe.item = Append(@, [action |-> sub.type, success |-> TRUE]),
                      !.run.fe.j = @ + 1], sen)
               [] sub.type \notin validTypes ->
                    ForEachNext([called EXCEPT
                      !.run.fe.item = Append(@, [action |-> sub.type, success |-> FALSE]),
                      !.run.fe.j = @ + 1,
                      !.run.unknownDispatched = TRUE], sen)
               [] OTHER -> [called EXCEPT !.run.pc = "action"]

\* faulty variant: a nested action that throws ends the forEach
NestedReturnedAborting(m, ok, sen) ==
  IF ok
  THEN ForEachNext([m EXCEPT
         !.run.fe.item = Append(@, [action |-> m.run.fe.actions[m.run.fe.j].type,
                                    success |-> TRUE]),
         !.run.fe.j = @ + 1], sen)
  ELSE ActionRejected([m EXCEPT !.run.fe = NoForEach], sen)

\* lines 566-581: the awaited nested executeAction returned (ok) or threw
NestedReturned(m, ok, sen) ==
  ForEachNext([m EXCEPT
    !.run.fe.item = Append(@, [action |-> m.run.fe.actions[m.run.fe.j].type, success |-> ok]),
    !.run.fe.j = @ + 1], sen)

\* faulty variant: a skipped step is listed among the executed steps
AfterStepListingSkipped(m, sr, sen) ==
  LET w == m.run.wf
      cur == m.run.cur
      folded == [m EXCEPT !.res.results[cur] = sr]
      next == getNextStep(w, cur, sr)
  IN IF IsSuccess(sr) \/ IsSkipped(sr)
     THEN RunLoop([folded EXCEPT !.res.executedSteps = Append(@, cur),
                                 !.run.cur = next], sen)
     ELSE LET failed == [folded EXCEPT !.res.failedSteps = Append(@, cur)]
          IN IF StopOnError(w)
             THEN LoopExit(failed)
             ELSE RunLoop([failed EXCEPT !.run.cur = next], sen)

\* lines 810-836: fold the StepResult and choose the next step
AfterStep(m, sr, sen) ==
  LET w == m.run.wf
      cur == m.run.cur
      folded == [m EXCEPT !.res.results[cur] = sr]
      next == getNextStep(w, cur, sr)
  IN IF IsSuccess(sr)
     THEN RunLoop([folded EXCEPT !.res.executedSteps = Append(@, cur),
                                 !.run.cur = next], sen)
     ELSE IF ~IsSkipped(sr)
          THEN LET failed == [folded EXCEPT !.res.failedSteps = Append(@, cur)]
               IN IF StopOnError(w)
                  THEN LoopExit(failed)
                  ELSE RunLoop([failed EXCEPT !.run.cur = next], sen)
          ELSE RunLoop([folded EXCEPT !.run.cur = next], sen)

\* faulty variant: the loop guard counts iterations instead of step ids
VisitedAfterLap(m) == Len(m.run.visitOrder) > Len(m.run.wf.steps)

\* line 792: visitedSteps.has(currentStepId)
Visited(m) == m.run.cur \in m.run.visited

\* faulty variant: a step id that is no declared step ends the run with a
\* top-level error
StepNotFoundAborts(m) == Abort(m, "step not found")

\* lines 800-804: stepMap has no step of the current id: an error is logged
\* and the loop is left
StepNotFound(m) == LoopExit(m)

\* lines 792-809 and 957-972: the top of the while loop up to the first attempt
RunLoop(m, sen) ==
  LET w == m.run.wf
      cur == m.run.cur
  IN IF cur = NoStep \/ Visited(m) THEN LoopExit(m)
     ELSE IF sen THEN LoopExit([m EXCEPT !.run.interrupted = TRUE])
     ELSE IF ~HasStep(w, cur) THEN StepNotFound(m)
     ELSE LET step == StepById(w, cur)
              entered == [m EXCEPT !.run.visited = @ \cup {cur},
                                   !.run.visitOrder = Append(@, cur)]
          IN IF step.condition # NoCond
                /\ ~evaluateCondition(step.condition, m.res.results)
             THEN AfterStep(entered, SkippedResult, sen)
             ELSE BeginAttempt([entered EXCEPT !.run.attempts = 0,
                                               !.run.stepResults = <<>>,
                                               !.run.log = <<>>, !.run.threw = {}], sen)

\* faulty variant: the sentinel is also read after each action of a step
ActionResolvedPolling(m, value, sen) ==
  LET step == StepById(m.run.wf, m.run.cur)
      pushed == Append(m.run.stepResults,
                       [action |-> step.actions[m.run.ai].type, result |-> value])
      m1 == [m EXCEPT !.run.stepResults = pushed]
  IN IF sen THEN LoopExit([m1 EXCEPT !.run.interrupted = TRUE])
     ELSE IF m.run.ai < Len(step.actions)
     THEN StartAction([m1 EXCEPT !.run.ai = @ + 1], sen)
     ELSE AfterStep(m1, OkResult(m.run.attempts, pushed), sen)

\* lines 985-1005: executeAction returned `value` for action `ai`
ActionResolved(m, value, sen) ==
  LET step == StepById(m.run.wf, m.run.cur)
      pushed == Append(m.run.stepResults,
                       [action |-> step.actions[m.run.ai].type, result |-> value])
      m1 == [m EXCEPT !.run.stepResults = pushed]
  IN IF m.run.ai < Len(step.actions)
     THEN StartAction([m1 EXCEPT !.run.ai = @ + 1], sen)
     ELSE AfterStep(m1, OkResult(m.run.attempts, pushed), sen)

\* lines 1007-1025: executeAction threw
ActionRejected(m, sen) ==
  LET step == StepById(m.run.wf, m.run.cur)
      \* history: the calls of the current step that threw
      m1 == [m EXCEPT !.run.anyFailed = TRUE,
                      !.run.threw = @ \cup {<<m.run.attempts, m.run.ai>>}]
  IN IF m.run.attempts >= MaxAttemptsOf(step)
     THEN AfterStep(m1, FailedResult(m.run.attempts, m.run.stepResults), sen)
     ELSE [m1 EXCEPT !.run.pc = "retryWait"]

\* faulty variant: the run starts without looking at the instance's page
StartRunUnchecked(w, inst) ==
  RunLoop([run |-> [IdleRun EXCEPT !.wf = w, !.inst = inst,
                                   !.timer = IF w.timeout # 0 THEN "armed" ELSE "none",
                                   !.cur = findInitialStep(w)],
           res |-> NewResult], FALSE)

\* lines 749-790: executeWorkflow from its call to the first suspension
StartRun(w, inst) ==
  LET m0 == [run |-> [IdleRun EXCEPT !.wf = w, !.inst = inst,
                                     \* history: the store held a temporary
                                     \* result of stopWorkflow for this id
                                     !.preStopped = (results[w.id] = TempRef)],
             res |-> NewResult]
  IN IF inst \notin activeInstances THEN Abort(m0, InstanceMissingError)
     ELSE IF inst \notin pageOpen THEN Abort(m0, PageInactiveError)
     ELSE RunLoop([m0 EXCEPT !.run.timer = IF w.timeout # 0 THEN "armed" ELSE "none",
                             !.run.cur = findInitialStep(w)], FALSE)

\* ------------------------------------------------------- the result store
ObjectAt(ref) == IF ref = TempRef THEN TempResult ELSE heap[ref]

\* lines 794-795
Interrupted(id) == results[id] # 0 /\ ObjectAt(results[id]).error = Sentinel

\* faulty variant: the duplicate-run check is missing
IsRunningNever(id) == FALSE

\* part_008 line 508
IsRunning(id) == runningWorkflows[id] # 0

InFlight(r) == runs[r].pc \in {"action", "retryWait"}

\* A WorkflowResult object that neither the store nor a pending call refers
\* to is unreachable; the heap keeps a blank object in its place
Collect(h, store, rs) ==
  [r \in Runs |->
     IF rs[r].pc \in {"idle", "done"} /\ \A id \in WorkflowIds : store[id] # r
     THEN NewResult ELSE h[r]]

\* faulty variant: the registry entry stays when the call returns
CommitKeepsRegistry(r, m) ==
  LET id == m.run.wf.id
      done == m.run.pc = "done"
      rs == [runs EXCEPT ![r] = IF done THEN DoneRun ELSE m.run]
      store == IF done THEN [results EXCEPT ![id] = r] ELSE results
  IN /\ runs' = rs
     /\ results' = store
     /\ heap' = Collect([heap EXCEPT ![r] = m.res], store, rs)
     /\ runningWorkflows' = runningWorkflows
     /\ lastEvent' = Returned(NoEvent, r, m)

\* the state after a continuation of run r: its object and local state are
\* written back; a finalized run stores its object (line 878) and the promise's
\* finally callback deletes the registry entry of its id (part_008 line 529)
Commit(r, m) ==
  LET id == m.run.wf.id
      done == m.run.pc = "done"
      rs == [runs EXCEPT ![r] = IF done THEN DoneRun ELSE m.run]
      store == IF done THEN [results EXCEPT ![id] = r] ELSE results
  IN /\ runs' = rs
     /\ results' = store
     /\ heap' = Collect([heap EXCEPT ![r] = m.res], store, rs)
     /\ runningWorkflows' =
          IF done THEN [runningWorkflows EXCEPT ![id] = 0] ELSE runningWorkflows
     /\ lastEvent' = Returned(NoEvent, r, m)

\* ------------------------------------------------------------- operations
\* part_008 POST /api/instagram/iniciar: the instance is created and stored
IniciarInstancia(i) ==
  /\ UNCHANGED probe
  /\ i \notin activeInstances
  /\ activeInstances' = activeInstances \cup {i}
  /\ pageOpen' = pageOpen \cup {i}
  /\ lastEvent' = NoEvent
  /\ UNCHANGED <<runningWorkflows, results, heap, runs, nextRun>>

\* part_008 POST /api/instagram/parar/:username: instance.close() and delete
PararInstancia(i) ==
  /\ UNCHANGED probe
  /\ i \in activeInstances
  /\ activeInstances' = activeInstances \ {i}
  /\ pageOpen' = pageOpen \ {i}
  /\ lastEvent' = NoEvent
  /\ UNCHANGED <<runningWorkflows, results, heap, runs, nextRun>>

\* the browser page of an instance is closed from outside (isPageActive turns false)
PageCloses(i) ==
  /\ UNCHANGED probe
  /\ i \in pageOpen
  /\ pageOpen' = pageOpen \ {i}
  /\ lastEvent' = NoEvent
  /\ UNCHANGED <<runningWorkflows, activeInstances, results, heap, runs, nextRun>>

\* part_008 POST /api/instagram/workflow/execute with body {workflow: w,
\* instanceName: inst}; `cap` bounds the number of accepted starts
Execute(w, inst, cap) ==
  /\ UNCHANGED probe
  /\ IF ~validateWorkflow(w)
     THEN /\ lastEvent' = Response("execute", 400)
          /\ UNCHANGED <<runningWorkflows, activeInstances, pageOpen, results, heap, runs, nextRun>>
     ELSE IF IsRunning(w.id)
     THEN /\ lastEvent' = Response("execute", 409)
          /\ UNCHANGED <<runningWorkflows, activeInstances, pageOpen, results, heap, runs, nextRun>>
     ELSE IF inst \notin activeInstances
     THEN /\ lastEvent' = Response("execute", 400)
          /\ UNCHANGED <<runningWorkflows, activeInstances, pageOpen, results, heap, runs, nextRun>>
     ELSE /\ nextRun <= cap
          /\ LET r == nextRun
                 m == StartRun(w, inst)
                 done == m.run.pc = "done"
                 rs == [runs EXCEPT ![r] = IF done THEN DoneRun ELSE m.run]
                 \* line 763 stores the object
                 store == [results EXCEPT ![w.id] = r]
             IN /\ runs' = rs
                /\ results' = store
                /\ heap' = Collect([heap EXCEPT ![r] = m.res], store, rs)
                \* the handler registers the promise (line 525); a call that has
                \* returned at once is deleted again by `finally` (line 529)
                /\ runningWorkflows' = [runningWorkflows EXCEPT ![w.id] = IF done THEN 0 ELSE r]
                /\ nextRun' = r + 1
                /\ lastEvent' = Returned(Response("execute", 200), r, m)
          /\ UNCHANGED <<activeInstances, pageOpen>>

\* WorkflowProcessor.stopWorkflow (lines 1053-1079) on the store
stopWorkflow(id) ==
  IF results[id] = 0
  THEN /\ results' = [results EXCEPT ![id] = TempRef]
       /\ heap' = heap
  ELSE /\ results' = results
       /\ heap' = IF results[id] = TempRef THEN heap
                  ELSE [heap EXCEPT ![results[id]].error = Sentinel,
                                    ![results[id]].endTime = "stop"]

\* part_008 POST /api/instagram/workflow/stop/:workflowId
Stop(id) ==
  /\ UNCHANGED probe
  /\ IF ~IsRunning(id)
     THEN /\ lastEvent' = Response("stop", 404)
          /\ UNCHANGED <<runningWorkflows, activeInstances, pageOpen, results, heap, runs, nextRun>>
     ELSE /\ stopWorkflow(id)
          /\ runningWorkflows' = [runningWorkflows EXCEPT ![id] = 0]
          \* history: the number of steps each pending call of id had entered
          /\ runs' = [r \in Runs |->
                        IF InFlight(r) /\ runs[r].wf.id = id /\ runs[r].stopMark = 0
                        THEN [runs[r] EXCEPT
                               !.stopMark = Len(runs[r].visitOrder),
                               \* and the attempt, action and forEach item it was in
                               !.stopAt = [attempts |-> runs[r].attempts, ai |-> runs[r].ai,
                                           item |-> runs[r].fe.i]]
                        ELSE runs[r]]
          /\ lastEvent' = Response("stop", 200)
          /\ UNCHANGED <<activeInstances, pageOpen, nextRun>>

\* WorkflowProcessor.clearResults
ClearResults ==
  /\ UNCHANGED probe
  /\ results' = [id \in WorkflowIds |-> 0]
  /\ heap' = Collect(heap, [id \in WorkflowIds |-> 0], runs)
  /\ lastEvent' = NoEvent
  /\ UNCHANGED <<runningWorkflows, activeInstances, pageOpen, runs, nextRun>>

\* what an awaited action returns: monitorPosts an object with the list
\* `posts` of 0..MaxItems items and their number `count`, any other action an
\* object without either
Posts(k) == [i \in 1..k |-> Str(<<ItemChars[i]>>)]
Payloads(type) ==
  IF type = "monitorPosts"
  THEN {Obj([success |-> Bool(TRUE), posts |-> Arr(Posts(k)), count |-> Num(k)]) :
          k \in 0..MaxItems}
  ELSE {Obj([success |-> Bool(TRUE)])}

\* the action awaited by run r returns
ActionSucceeds(r) ==
  /\ UNCHANGED probe
  /\ runs[r].pc = "action"
  /\ LET m == [run |-> runs[r], res |-> heap[r]]
         sen == Interrupted(runs[r].wf.id)
     IN IF runs[r].fe.active
        THEN Commit(r, NestedReturned(m, TRUE, sen))
        ELSE \E value \in Payloads(StepById(runs[r].wf, runs[r].cur).actions[runs[r].ai].type) :
               Commit(r, ActionResolved(m, value, sen))
  /\ UNCHANGED <<activeInstances, pageOpen, nextRun>>

\* the action dispatched by run r throws
ActionFails(r) ==
  /\ UNCHANGED probe
  /\ runs[r].pc = "action"
  /\ LET m == [run |-> runs[r], res |-> heap[r]]
         sen == Interrupted(runs[r].wf.id)
     IN IF runs[r].fe.active
        THEN \* history: the awaited nested call <<item index, action>> threw
             Commit(r, NestedReturned(
               [m EXCEPT !.run.nestedFailed = @ \cup {<<m.run.fe.i - 1, m.run.fe.j>>}],
               FALSE, sen))
        ELSE Commit(r, ActionRejected(m, sen))
  /\ UNCHANGED <<activeInstances, pageOpen, nextRun>>

\* the retry delay of run r elapses (line 1023) and the next attempt begins
RetryWake(r) ==
  /\ UNCHANGED probe
  /\ runs[r].pc = "retryWait"
  /\ Commit(r, BeginAttempt([run |-> runs[r], res |-> heap[r]], Interrupted(runs[r].wf.id)))
  /\ UNCHANGED <<activeInstances, pageOpen, nextRun>>

\* the global timeout of run r elapses (lines 780-782): the callback throws
\* outside every try block of executeWorkflow; the process's uncaughtException
\* handler (part_008 line 695) logs it
TimeoutFires(r) ==
  /\ UNCHANGED probe
  /\ InFlight(r)
  /\ runs[r].timer = "armed"
  /\ runs' = [runs EXCEPT ![r].timer = "fired"]
  /\ lastEvent' = NoEvent
  /\ UNCHANGED <<runningWorkflows, activeInstances, pageOpen, results, heap, nextRun>>

\* ------------------------------------------------------- workflows submitted
ExternalStep(id, nact, maxAttempts) ==
  Step(id, [j \in 1..nact |-> Action("likePost")], NoCond, maxAttempts)

\* documents that miss an id, steps, a step id or actions, or name an unknown
\* action type
Malformed ==
  {Workflow("w1", <<>>, <<>>, "absent", 0),
   Workflow("w1", <<Step("s1", <<>>, NoCond, 0)>>, <<>>, "absent", 0),
   Workflow("w1", <<Step("", <<Action("likePost")>>, NoCond, 0)>>, <<>>, "absent", 0),
   Workflow("w1", <<ExternalStep("s1", 1, 0),
                    Step("s2", <<Action("likePost"), Action("teleport")>>, NoCond, 0)>>,
            <<>>, "absent", 0),
   Workflow("", <<ExternalStep("s1", 1, 0)>>, <<>>, "absent", 0)}

\* the documents submitted in Spec: two-step sequential workflows, one per id,
\* the second with a global timeout, and the malformed documents
Catalog ==
  {Workflow("w1", <<ExternalStep("s1", 1, 0), ExternalStep("s2", 1, 0)>>, <<>>, "absent", 0),
   Workflow("w2", <<ExternalStep("s1", 1, 0), ExternalStep("s2", 1, 0)>>, <<>>, "absent", 1)}
  \cup Malformed

\* ---------------------------------------------------------- specification
InitServer ==
  /\ runningWorkflows = [id \in WorkflowIds |-> 0]
  /\ activeInstances = {}
  /\ pageOpen = {}
  /\ results = [id \in WorkflowIds |-> 0]
  /\ heap = [r \in Runs |-> NewResult]
  /\ runs = [r \in Runs |-> IdleRun]
  /\ nextRun = 1
  /\ lastEvent = NoEvent

Init == InitServer /\ probe = NoProbe

Next ==
  \/ \E i \in Instances : IniciarInstancia(i)
  \/ \E w \in Catalog, i \in Instances : Execute(w, i, MaxRuns)
  \/ \E id \in WorkflowIds : Stop(id)
  \/ ClearResults
  \/ \E r \in Runs : ActionSucceeds(r)
  \/ \E r \in Runs : ActionFails(r)
  \/ \E r \in Runs : TimeoutFires(r)

\* The server under concurrent requests: MaxRuns accepted starts of the
\* Catalog's workflows, with stop and clear requests at any time
Spec == Init /\ [][Next]_vars

\* ------------------------------------------------ one run of any workflow
StepIdAt(i) == <<"s1", "s2", "s3", "s4">>[i]

\* the step lists submitted in SpecRun: 1..MaxSteps steps of one external
\* action without retry, except for step p, which has nact actions and
\* retry.maxAttempts = ma; with `dup` the last step repeats the id of the first
StepList(n, p, nact, ma, dup) ==
  [i \in 1..n |->
     ExternalStep(IF dup /\ i = n THEN StepIdAt(1) ELSE StepIdAt(i),
                  IF i = p THEN nact ELSE 1,
                  IF i = p THEN ma ELSE 0)]

StepLists ==
  {StepList(n, p, nact, ma, dup) :
     n \in 1..MaxSteps, p \in 1..MaxSteps, nact \in {1, 2}, ma \in 0..MaxAttempts,
     dup \in BOOLEAN}

AllWorkflows ==
  {Workflow("w1", steps, <<>>, soe, t) :
     steps \in StepLists, soe \in {"absent", "true", "false"}, t \in {0, 1}} \cup Malformed

\* the documents a request of SpecRun carries: any of them while no start
\* has been accepted; afterwards the accepted one again, or a malformed one
Submitted == IF nextRun = 1 THEN AllWorkflows ELSE Malformed \cup {runs[1].wf}

NextRun ==
  \/ \E i \in Instances : IniciarInstancia(i)
  \/ \E i \in Instances : PararInstancia(i)
  \/ \E i \in Instances : PageCloses(i)
  \/ \E w \in Submitted, i \in Instances : Execute(w, i, 1)
  \/ \E id \in WorkflowIds : Stop(id)
  \/ ClearResults
  \/ \E r \in Runs : ActionSucceeds(r)
  \/ \E r \in Runs : ActionFails(r)
  \/ \E r \in Runs : RetryWake(r)
  \/ \E r \in Runs : TimeoutFires(r)

\* The server executing one workflow of AllWorkflows
SpecRun == Init /\ [][NextRun]_vars


\* ------------------------------------- workflows with if, forEach and edges
StepsWord == <<"s", "t", "e", "p", "s">>
ResultWord == <<"r", "e", "s", "u", "l", "t">>
PostsWord == <<"p", "o", "s", "t", "s">>
CountWord == <<"c", "o", "u", "n", "t">>
StepChars == [s \in StepIds |-> <<"s", IndexKey(CHOOSE i \in 1..4 : StepIdAt(i) = s)>>]

\* the template {{steps.<step>.result.<field>}}
ResultPath(step, field) ==
  Str(Open \o StepsWord \o <<".">> \o StepChars[step] \o <<".">> \o ResultWord \o <<".">>
        \o field \o Close)

\* the action lists nested in the forEach of a submitted workflow
NestedLists ==
  {<<>>,
   <<Action("likePost")>>,
   <<Action("likePost"), Action("followUser")>>,
   <<Action("teleport"), Action("likePost")>>,
   <<IfAction(Str(Open \o ItemWord \o Close), "isNotEmpty", Undefined), Action("comment")>>,
   <<IfAction(Str(Open \o ItemWord \o Close), "equals", ResultPath("s1", CountWord)),
     Action("comment")>>}

\* s1 monitors posts, s2 runs a forEach over the posts s1 found, followed by
\* `tail` further actions, with retry.maxAttempts = ma; s3 likes a post
ForEachWorkflow(nested, tail, ma, soe) ==
  Workflow("w1",
    <<Step("s1", <<Action("monitorPosts")>>, NoCond, 0),
      Step("s2", <<ForEachAction(ResultPath("s1", PostsWord), nested)>>
                   \o [k \in 1..tail |-> Action("likePost")], NoCond, ma),
      ExternalStep("s3", 1, 0)>>,
    <<>>, soe, 0)

\* the if actions of the submitted workflows
IfActions ==
  {IfAction(ResultPath("s1", PostsWord), "isNotEmpty", Undefined),
   IfAction(ResultPath("s1", PostsWord), "", Undefined),
   IfAction(ResultPath("s1", PostsWord), "isEmpty", Undefined),
   IfAction(ResultPath("s1", CountWord), "greaterThan", Num(1)),
   IfAction(ResultPath("s1", CountWord), "lessThan", Num(2)),
   IfAction(ResultPath("s1", CountWord), "equals", Num(1))}

\* s1 monitors posts, s2 is a single if on what s1 found, with one edge to
\* s3 and one to s4 whose labels are h3 and h4, s3 listed first if s3First
IfWorkflow(a, h3, h4, s3First) ==
  Workflow("w1",
    <<Step("s1", <<Action("monitorPosts")>>, NoCond, 0),
      Step("s2", <<a>>, NoCond, 0),
      ExternalStep("s3", 1, 0),
      ExternalStep("s4", 1, 0)>>,
    <<Edge("s1", "s2", "none")>>
      \o (IF s3First THEN <<Edge("s2", "s3", h3), Edge("s2", "s4", h4)>>
          ELSE <<Edge("s2", "s4", h4), Edge("s2", "s3", h3)>>),
    "absent", 0)

\* three steps of one awaited action each; s2 carries the condition `type` on
\* the step `prev` (NoStep for a condition without previousStep)
CondWorkflow(type, prev, soe) ==
  Workflow("w1",
    <<ExternalStep("s1", 1, 0),
      Step("s2", <<Action("likePost")>>, [type |-> type, previousStep |-> prev], MaxAttempts),
      ExternalStep("s3", 1, 0)>>,
    <<>>, soe, 0)

CondCatalog ==
  {CondWorkflow(type, prev, soe) :
     type \in {"success", "failure", "always"}, prev \in {"s1", "s3", NoStep},
     soe \in {"absent", "false"}}

\* s1 monitors posts; s2 does so if s1 failed; s3 is an if on the count of
\* step `ref`; s4 monitors posts if s3 failed; the run goes on after a failed
\* step
RefWorkflow(ref) ==
  Workflow("w1",
    <<Step("s1", <<Action("monitorPosts")>>, NoCond, 0),
      Step("s2", <<Action("monitorPosts")>>, [type |-> "failure", previousStep |-> "s1"], 0),
      Step("s3", <<IfAction(ResultPath(ref, CountWord), "isNotEmpty", Undefined)>>, NoCond, 0),
      Step("s4", <<Action("monitorPosts")>>, [type |-> "failure", previousStep |-> "s3"], 0)>>,
    <<>>, "false", 0)

RefCatalog == {RefWorkflow(ref) : ref \in {"s1", "s2", "s4"}}

\* the template {{steps.<step>.result}}
WholeResultPath(step) ==
  Str(Open \o StepsWord \o <<".">> \o StepChars[step] \o <<".">> \o ResultWord \o Close)

\* lists of a forEach that are no array once resolved: a number, null (s3
\* has not run), an object, a plain string, and none at all
BadLists ==
  {ResultPath("s1", CountWord), ResultPath("s3", PostsWord), WholeResultPath("s1"),
   Str(<<"a", "b">>), Undefined}

\* s1 monitors posts, s2 is a forEach over `list` with retry.maxAttempts = ma,
\* s3 likes a post; the run goes on after a failed step
BadListWorkflow(list, ma) ==
  Workflow("w1",
    <<Step("s1", <<Action("monitorPosts")>>, NoCond, 0),
      Step("s2", <<ForEachAction(list, <<Action("likePost")>>)>>, NoCond, ma),
      ExternalStep("s3", 1, 0)>>,
    <<>>, "false", 0)

BadListCatalog == {BadListWorkflow(list, ma) : list \in BadLists, ma \in {0, MaxAttempts}}

\* three steps of one awaited action each: s1 runs on condition t1 of s3,
\* which has no result when s1 is entered, s2 on condition t2 of s1, and s3
\* on the success of s2 if `last`, else without condition
ChainWorkflow(t1, t2, last) ==
  Workflow("w1",
    <<Step("s1", <<Action("likePost")>>, [type |-> t1, previousStep |-> "s3"], 0),
      Step("s2", <<Action("likePost")>>, [type |-> t2, previousStep |-> "s1"], 0),
      Step("s3", <<Action("likePost")>>,
           IF last THEN [type |-> "success", previousStep |-> "s2"] ELSE NoCond, 0)>>,
    <<>>, "absent", 0)

ChainCatalog ==
  {ChainWorkflow(t1, t2, last) :
     t1 \in {"success", "failure"}, t2 \in {"success", "failure"}, last \in BOOLEAN}

\* n steps of one awaited action each, chained by edges, the last of which
\* has an edge to s4, which is no step of the workflow
DanglingWorkflow(n, soe) ==
  Workflow("w1",
    [i \in 1..n |-> ExternalStep(<<"s1", "s2">>[i], 1, 0)],
    [i \in 1..n |-> Edge(<<"s1", "s2">>[i], <<"s2", "s4">>[i + 2 - n], "none")],
    soe, 0)

DanglingCatalog == {DanglingWorkflow(n, soe) : n \in {1, 2}, soe \in {"absent", "false"}}

FlowCatalog ==
  {ForEachWorkflow(nested, tail, 0, soe) :
     nested \in NestedLists, tail \in {0, 1}, soe \in {"absent", "false"}}
  \cup {ForEachWorkflow(<<Action("likePost")>>, tail, MaxAttempts, soe) :
          tail \in {0, 1}, soe \in {"absent", "false"}}
  \cup {IfWorkflow(a, h[1], h[2], f) :
          a \in IfActions, h \in {<<"onTrue", "onFalse">>, <<"onFalse", "onTrue">>},
          f \in BOOLEAN}
  \cup CondCatalog \cup RefCatalog \cup BadListCatalog \cup ChainCatalog
  \cup DanglingCatalog

\* the documents a request of SpecFlow carries: any of FlowCatalog while no
\* start has been accepted, afterwards the accepted one again
SubmittedFlow == IF nextRun = 1 THEN FlowCatalog ELSE {runs[1].wf}

NextFlow ==
  \/ \E i \in Instances : IniciarInstancia(i)
  \/ \E w \in SubmittedFlow, i \in Instances : Execute(w, i, 1)
  \/ \E id \in WorkflowIds : Stop(id)
  \/ \E r \in Runs : ActionSucceeds(r)
  \/ \E r \in Runs : ActionFails(r)
  \/ \E r \in Runs : RetryWake(r)

\* The server executing one workflow of FlowCatalog
SpecFlow == Init /\ [][NextFlow]_vars


\* ------------------------------------------------- getNextStep on its own
\* the largest number of edges leaving one step
MaxEdges == 3

\* the labels an edge carries as sourceHandle; "none" is an edge without one
Handles == {"onTrue", "onFalse", "none", "other"}

TargetAt(i) == <<"s2", "s3", "s4", "s5", "s6">>[i]

\* the edges leaving s1, one per label of hs, in the order of workflow.edges
EdgesFrom(hs) == [i \in 1..Len(hs) |-> Edge("s1", TargetAt(i), hs[i])]

HandleLists == UNION {[1..n -> Handles] : n \in 2..MaxEdges}

\* what an if action returns for a condition that evaluated to b
IfValue(b) ==
  Obj([success |-> Bool(TRUE), conditionResult |-> Bool(b), variable |-> Undefined,
       value |-> Undefined])

\* the StepResults getNextStep is called with: a step of one awaited action,
\* of one if (true, false), of an if (false) followed by an awaited action,
\* of an awaited action followed by an if (true), a failed step and a
\* skipped step
Outcomes ==
  {OkResult(1, <<[action |-> "likePost", result |-> Obj([success |-> Bool(TRUE)])]>>),
   OkResult(1, <<[action |-> "if", result |-> IfValue(TRUE)]>>),
   OkResult(1, <<[action |-> "if", result |-> IfValue(FALSE)]>>),
   OkResult(1, <<[action |-> "if", result |-> IfValue(FALSE)],
                 [action |-> "likePost", result |-> Obj([success |-> Bool(TRUE)])]>>),
   OkResult(1, <<[action |-> "likePost", result |-> Obj([success |-> Bool(TRUE)])],
                 [action |-> "if", result |-> IfValue(TRUE)]>>),
   FailedResult(1, <<>>),
   SkippedResult}

InitNext ==
  /\ InitServer
  /\ \E hs \in HandleLists, sr \in Outcomes :
       probe = [op |-> "getNextStep", edges |-> EdgesFrom(hs), outcome |-> sr,
                returned |-> FALSE, value |-> NoStep]

\* the run loop calls getNextStep for step s1
NextStepCall ==
  /\ probe.op = "getNextStep" /\ ~probe.returned
  /\ probe' = [probe EXCEPT
       !.returned = TRUE,
       !.value = getNextStep(Workflow("w1", <<ExternalStep("s1", 1, 0)>>, probe.edges,
                                      "absent", 0),
                             "s1", probe.outcome)]
  /\ UNCHANGED server

\* getNextStep applied to every list of 2..MaxEdges edges and every outcome
SpecNext == InitNext /\ [][NextStepCall]_vars

\* ------------------------------------------------ the step a run starts at
\* the largest number of steps a workflow declares here
MaxDeclared == 3

\* the step ids declared, and the targets of edges: s5 is no declared step
GraphIds == {"s1", "s2", "s3"}
TargetIds == GraphIds \cup {"s5"}

IdLists == UNION {[1..n -> GraphIds] : n \in 0..MaxDeclared}
TargetLists == UNION {[1..n -> TargetIds] : n \in 0..MaxEdges}

\* the workflow of one awaited action per step of ids, with one edge from s1
\* to each target of ts
GraphOf(ids, ts) ==
  Workflow("w1", [i \in 1..Len(ids) |-> ExternalStep(ids[i], 1, 0)],
           [i \in 1..Len(ts) |-> Edge("s1", ts[i], "none")], "absent", 0)

InitInitial ==
  /\ InitServer
  /\ \E ids \in IdLists, ts \in TargetLists :
       probe = [op |-> "findInitialStep", ids |-> ids, targets |-> ts,
                returned |-> FALSE, value |-> NoStep]

\* executeWorkflow line 785 calls findInitialStep
InitialStepCall ==
  /\ probe.op = "findInitialStep" /\ ~probe.returned
  /\ probe' = [probe EXCEPT
       !.returned = TRUE,
       !.value = findInitialStep(GraphOf(probe.ids, probe.targets))]
  /\ UNCHANGED server

\* findInitialStep applied to every list of up to MaxDeclared steps and
\* every list of up to MaxEdges edges
SpecInitial == InitInitial /\ [][InitialStepCall]_vars

\* ------------------------------------------------ an if action in a step
\* the largest number among the values an if compares
MaxNum == 2

\* what the variable template of an if resolves to
Resolved ==
  {Undefined, Null, Str(<<>>), Str(<<"a">>), Arr(<<>>), Arr(<<Num(1)>>),
   Bool(FALSE), Bool(TRUE), Obj([a |-> Num(1)])}
  \cup {Num(n) : n \in 0..MaxNum}

\* what the document gives as `value`
Literals ==
  {Undefined, Null, Str(<<>>), Str(<<"a">>), Bool(FALSE), Bool(TRUE)}
  \cup {Num(n) : n \in 0..MaxNum}

Operators == {"", "isNotEmpty", "isEmpty", "equals", "greaterThan", "lessThan"}

\* the results map after step s1, whose one action returned {count: v}
ResultsWith(v) ==
  [s \in StepIds |->
     IF s = "s1"
     THEN OkResult(1, <<[action |-> "monitorPosts",
                         result |-> Obj([success |-> Bool(TRUE), count |-> v])]>>)
     ELSE NoResult]

\* lines 980-985: the parameters of an if action of a step are resolved
\* against the results map and executeAction is called with them
IfInStep(a, previousResults) ==
  LET context == ContextOf(previousResults)
  IN IfResult(resolveActionParams(a, context, Undefined), context)

InitIf ==
  /\ InitServer
  /\ \E v \in Resolved, o \in Operators, w \in Literals :
       probe = [op |-> "if", v |-> v, operator |-> o, w |-> w, returned |-> FALSE,
                value |-> Undefined]

\* a step runs the action {type: if, variable: {{steps.s1.result.count}},
\* operator, value} after s1 returned {count: v}
IfCall ==
  /\ probe.op = "if" /\ ~probe.returned
  /\ probe' = [probe EXCEPT
       !.returned = TRUE,
       !.value = IfInStep(IfAction(ResultPath("s1", CountWord), probe.operator, probe.w),
                          ResultsWith(probe.v))]
  /\ UNCHANGED server

\* an if in a step, for every resolved variable, operator and value
SpecIf == InitIf /\ [][IfCall]_vars

\* ------------------------------------------------ the params of an action
\* the deepest nesting of lists in a parameter
MaxDepth == 2

\* the leaves of a parameter: the templates {{item}} and
\* {{steps.s1.result.count}}, a plain string, a number and null
Leaves ==
  {Str(Open \o ItemWord \o Close), ResultPath("s1", CountWord), Str(<<"a">>), Num(1), Null}

Rows == UNION {[1..n -> Leaves] : n \in 1..MaxItems}

\* the list `row` inside d - 1 further lists
RECURSIVE Nest(_, _)
Nest(row, d) == IF d <= 1 THEN Arr(row) ELSE Arr(<<Nest(row, d - 1)>>)

\* the values of a parameter: a leaf, or a list of leaves at depth 1..MaxDepth
ParamValues == Leaves \cup {Nest(row, d) : row \in Rows, d \in 1..MaxDepth}

InitParams ==
  /\ InitServer
  /\ \E p \in ParamValues, k \in 1..MaxItems :
       probe = [op |-> "resolveActionParams", param |-> p, item |-> Str(<<ItemChars[k]>>),
                count |-> Num(k), returned |-> FALSE, value |-> Undefined]

\* lines 562 and 980: resolveActionParams is called on params whose key
\* `value` holds probe.param, after s1 returned {count}
ParamsCall ==
  /\ probe.op = "resolveActionParams" /\ ~probe.returned
  /\ probe' = [probe EXCEPT
       !.returned = TRUE,
       !.value = resolveActionParams(IfAction(Undefined, "equals", probe.param),
                                     ContextOf(ResultsWith(probe.count)), probe.item).value]
  /\ UNCHANGED server

\* resolveActionParams applied to every parameter value and item
SpecParams == InitParams /\ [][ParamsCall]_vars

\* ------------------------------------------- the engine called directly
\* WorkflowProcessor.stopWorkflow called on the exported processor, without
\* the route's look into the running registry
StopWorkflowCall(id) ==
  /\ UNCHANGED probe
  /\ stopWorkflow(id)
  /\ lastEvent' = NoEvent
  /\ UNCHANGED <<runningWorkflows, activeInstances, pageOpen, runs, nextRun>>

NextEngine ==
  \/ \E i \in Instances : IniciarInstancia(i)
  \/ \E w \in Catalog, i \in Instances : Execute(w, i, MaxRuns)
  \/ \E id \in WorkflowIds : StopWorkflowCall(id)
  \/ ClearResults
  \/ \E r \in Runs : ActionSucceeds(r)
  \/ \E r \in Runs : ActionFails(r)

\* MaxRuns runs with the engine's stop and clear called at any time
SpecEngine == Init /\ [][NextEngine]_vars

\* ---------------------------------------------- runs under fair scheduling
\* two steps with an edge each way; s1 has retry.maxAttempts = ma
CyclicWorkflow(ma) ==
  Workflow("w1",
    <<ExternalStep("s1", 1, ma), ExternalStep("s2", 1, 0)>>,
    <<Edge("s1", "s2", "none"), Edge("s2", "s1", "none")>>, "false", 0)

\* an if step whose onTrue edge leads back to itself
SelfLoopWorkflow ==
  Workflow("w1",
    <<Step("s1", <<IfAction(Undefined, "isNotEmpty", Undefined)>>, NoCond, 0),
      ExternalStep("s2", 1, 0)>>,
    <<Edge("s1", "s1", "onTrue"), Edge("s1", "s2", "onFalse"), Edge("s2", "s1", "none")>>,
    "absent", 0)

\* starts accepted in one behaviour under fair scheduling
MaxLiveRuns == 1

LiveCatalog ==
  {CyclicWorkflow(MaxAttempts), SelfLoopWorkflow,
   ForEachWorkflow(<<Action("likePost")>>, 0, 0, "absent")}

NextLive ==
  \/ \E i \in Instances : IniciarInstancia(i)
  \/ \E w \in LiveCatalog, i \in Instances : Execute(w, i, MaxLiveRuns)
  \/ \E id \in WorkflowIds : Stop(id)
  \/ \E r \in Runs : ActionSucceeds(r)
  \/ \E r \in Runs : ActionFails(r)
  \/ \E r \in Runs : RetryWake(r)

\* the call of run r resumes: its awaited action returns or throws, or its
\* retry delay elapses
Resumes(r) == ActionSucceeds(r) \/ ActionFails(r) \/ RetryWake(r)

\* every awaited action returns or throws, and every retry delay elapses: weak
\* fairness of Resumes(r), written out with its enabling condition InFlight(r)
Returns ==
  \A r \in Runs : []<>(~InFlight(r)) \/ []<><<Resumes(r)>>_vars

\* The server with MaxLiveRuns starts of workflows with cycles, retries and a
\* forEach, where no awaited action hangs
SpecLive == Init /\ [][NextLive]_vars /\ Returns


\* ------------------------------------------------- resolveValue on its own
MaxKeys == 3

\* property names used in paths, with their characters
KeyNames == {"a", "b", "0", "length", "item", ""}
KeyChars ==
  [k \in KeyNames |->
     CASE k = "a" -> <<"a">>
       [] k = "b" -> <<"b">>
       [] k = "0" -> <<"0">>
       [] k = "length" -> <<"l", "e", "n", "g", "t", "h">>
       [] k = "item" -> ItemWord
       [] OTHER -> <<>>]

\* the contexts resolveValue is called with
Contexts ==
  {Obj([a |-> Obj([b |-> Arr(<<Num(1), Num(2)>>), item |-> Null]),
        b |-> Str(<<"a">>), length |-> Num(0)]),
   Arr(<<Obj([a |-> Bool(FALSE)])>>),
   Undefined}

\* the dot-path of the keys ks
RECURSIVE Dotted(_)
Dotted(ks) ==
  IF ks = <<>> THEN <<>>
  ELSE IF Len(ks) = 1 THEN KeyChars[ks[1]]
  ELSE KeyChars[ks[1]] \o <<".">> \o Dotted(Tail(ks))

KeyLists == UNION {[1..n -> KeyNames] : n \in 0..MaxKeys}
Pads == {<<>>, <<" ">>}

\* the expressions: a dot-path, padded with blanks or not, between an opening
\* and a closing marker that may each be complete, halved or missing
Expressions ==
  [pre : {<<>>, <<"{">>, Open}, lpad : Pads, keys : KeyLists, rpad : Pads,
   suf : {<<>>, <<"}">>, Close}]

Render(e) == e.pre \o e.lpad \o Dotted(e.keys) \o e.rpad \o e.suf

InitResolve ==
  /\ InitServer
  /\ \E e \in Expressions, c \in Contexts :
       probe = [op |-> "resolveValue", expr |-> e, path |-> Str(Render(e)), context |-> c,
                returned |-> FALSE, value |-> Undefined]

\* a caller evaluates resolveValue(path, context)
ResolveCall ==
  /\ probe.op = "resolveValue" /\ ~probe.returned
  /\ probe' = [probe EXCEPT !.returned = TRUE,
                            !.value = resolveValue(probe.path, probe.context, Undefined)]
  /\ UNCHANGED server

\* resolveValue applied to every expression and context
SpecResolve == InitResolve /\ [][ResolveCall]_vars


\* ================================================================== claims
\* the pending executeWorkflow calls of a workflow id
PendingRuns(id) == {r \in Runs : InFlight(r) /\ runs[r].wf.id = id}

\* C1: for every workflow id at most one run is in flight (started and not
\* yet finalized) at any time
C1_AtMostOneRunInFlight ==
  \A id \in WorkflowIds : Cardinality(PendingRuns(id)) <= 1

\* the claim's words for a document that fails structural validation
IsMalformed(w) ==
  \/ w.id = ""
  \/ Len(w.steps) = 0
  \/ \E i \in 1..Len(w.steps) :
       \/ w.steps[i].id = ""
       \/ Len(w.steps[i].actions) = 0
       \/ \E j \in 1..Len(w.steps[i].actions) : w.steps[i].actions[j].type \notin validTypes

\* C2: a start that is rejected, because the id is in the running registry
\* or because the document is malformed, changes neither the registry nor the
\* result store, dispatches nothing and leaves every WorkflowResult as it was
C2_RejectedStartChangesNothing ==
  [][(/\ lastEvent'.route = "execute"
      /\ \E w \in Catalog, i \in Instances :
           (IsMalformed(w) \/ runningWorkflows[w.id] # 0) /\ Execute(w, i, MaxRuns))
       => UNCHANGED <<runningWorkflows, results, heap, runs, nextRun>>]_vars

\* C2 witness: a start was answered 409 while the run of that id is pending
C2_Witness ==
  /\ lastEvent.route = "execute" /\ lastEvent.code = 409
  /\ \E id \in WorkflowIds : runningWorkflows[id] # 0 /\ InFlight(runningWorkflows[id])

\* C3: after stop(id) during step k of a run of id, step k completes and is
\* folded, no later step is started, and the run's finalized stored result
\* carries the interruption sentinel
C3_StopHaltsAtNextBoundary ==
  /\ \A r \in Runs :
       runs[r].stopMark > 0 => Len(runs[r].visitOrder) = runs[r].stopMark
  /\ (lastEvent.finalized /\ lastEvent.run.stopMark > 0) =>
       /\ Len(lastEvent.run.visitOrder) = lastEvent.run.stopMark
       /\ lastEvent.res.results[lastEvent.run.visitOrder[lastEvent.run.stopMark]].kind # "none"
       /\ ObjectAt(results[lastEvent.run.wf.id]).error = Sentinel

\* C4: a run that registers after a stop(id) has stored a temporary result
\* with the sentinel observes it at its first step boundary and executes no step
C4_EarlyStopPreventsEveryStep ==
  /\ \A r \in Runs : runs[r].preStopped => Len(runs[r].visitOrder) = 0
  /\ (lastEvent.finalized /\ lastEvent.run.preStopped) =>
       Len(lastEvent.run.visitOrder) = 0


\* the run that has just finalized: its local state and its result
Fin == lastEvent.run
FinRes == lastEvent.res

\* the run got past the resource check of lines 769-775
ResourceLive(res) == res.error \notin {InstanceMissingError, PageInactiveError}

C6_InterruptedIsNotCompleted ==
  \A id \in WorkflowIds :
    (results[id] \in Runs /\ heap[results[id]].endTime = "final"
       /\ heap[results[id]].error = Sentinel)
      => ~heap[results[id]].success

\* the declared step ids, in order
DeclaredIds(w) == [i \in 1..Len(w.steps) |-> w.steps[i].id]
UniqueIds(w) == \A i, j \in 1..Len(w.steps) : w.steps[i].id = w.steps[j].id => i = j
NoConditions(w) == \A i \in 1..Len(w.steps) : w.steps[i].condition = NoCond

\* C7: a run of a workflow without edges and step conditions, with unique
\* step ids, whose actions all succeed and which no stop interrupts, executes
\* every step exactly once in declaration order and finalizes with success
C7_SequentialRunExecutesAllInOrder ==
  (/\ lastEvent.finalized
   /\ ResourceLive(FinRes)
   /\ Fin.wf.edges = <<>> /\ UniqueIds(Fin.wf) /\ NoConditions(Fin.wf)
   /\ ~Fin.anyFailed /\ ~Fin.interrupted)
    => /\ FinRes.executedSteps = DeclaredIds(Fin.wf)
       /\ Fin.visitOrder = DeclaredIds(Fin.wf)
       /\ \A i \in 1..Len(Fin.wf.steps) :
            Fin.dispatched[Fin.wf.steps[i].id] = Len(Fin.wf.steps[i].actions)
       /\ FinRes.failedSteps = <<>>
       /\ FinRes.success

\* C7 witness: such a run of MaxSteps steps has finalized
C7_Witness ==
  /\ lastEvent.finalized /\ ResourceLive(FinRes)
  /\ Fin.wf.edges = <<>> /\ UniqueIds(Fin.wf) /\ NoConditions(Fin.wf)
  /\ ~Fin.anyFailed /\ ~Fin.interrupted
  /\ Len(Fin.wf.steps) = MaxSteps
  /\ FinRes.executedSteps = DeclaredIds(Fin.wf)

\* the last element of a non-empty sequence
Last(s) == s[Len(s)]

\* C8: after a step has failed the run goes on to a further step only if
\* config.stopOnError is explicitly false: with stopOnError absent or true
\* the failed step is the last step entered and failedSteps has exactly one
\* element; with stopOnError false an uninterrupted run of a sequential
\* workflow enters every step whatever fails
C8_StopOnErrorDefaultsToTrue ==
  (lastEvent.finalized /\ FinRes.failedSteps # <<>>) =>
    IF Fin.wf.stopOnError = "false"
    THEN (Fin.wf.edges = <<>> /\ UniqueIds(Fin.wf) /\ NoConditions(Fin.wf)
            /\ ~Fin.interrupted)
           => Fin.visitOrder = DeclaredIds(Fin.wf)
    ELSE /\ Len(FinRes.failedSteps) = 1
         /\ Last(Fin.visitOrder) = FinRes.failedSteps[1]

\* C8 witness: with stopOnError false the second step ran after the first failed
C8_Witness ==
  /\ lastEvent.finalized
  /\ Fin.wf.stopOnError = "false"
  /\ FinRes.failedSteps = <<"s1">> /\ FinRes.executedSteps = <<"s2">>

\* the folded result of step s is a failure in result object res
FailedIn(res, s) == res.results[s].kind = "failed"

\* the statement of C9 for a run with local state run and result res
RetryExhausted(run, res) ==
  \A s \in StepIds :
    (HasStep(run.wf, s) /\ FailedIn(res, s) /\ StepById(run.wf, s).maxAttempts >= 1) =>
      LET step == StepById(run.wf, s)
      IN /\ res.results[s].attempts = step.maxAttempts
         /\ res.results[s].error = ActionError
         /\ s \in Range(res.failedSteps)
         /\ Len(step.actions) = 1 => run.dispatched[s] = step.maxAttempts

\* C9: a step with retry.maxAttempts = n >= 1 whose action fails on every
\* attempt is dispatched exactly n times, its StepResult records attempts = n,
\* success = false and the error, and its id is in failedSteps
C9_RetryExhaustsAllAttempts ==
  /\ \A r \in Runs : InFlight(r) => RetryExhausted(runs[r], heap[r])
  /\ lastEvent.finalized => RetryExhausted(Fin, FinRes)

\* C9 witness: a single-action step failed after MaxAttempts attempts
C9_Witness ==
  /\ lastEvent.finalized
  /\ \E s \in StepIds :
       /\ HasStep(Fin.wf, s) /\ FailedIn(FinRes, s)
       /\ StepById(Fin.wf, s).maxAttempts = MaxAttempts
       /\ Len(StepById(Fin.wf, s).actions) = 1
       /\ Fin.dispatched[s] = MaxAttempts

\* C10: when config.timeout elapses during a run and nothing else has ended
\* it, the run stops at the next step boundary with the timeout as its
\* top-level error
C10_TimeoutEndsTheRun ==
  (lastEvent.finalized /\ Fin.timer = "fired" /\ FinRes.failedSteps = <<>>
     /\ ~Fin.interrupted /\ FinRes.error # Sentinel)
    => FinRes.error = TimeoutError


\* the executeWorkflow call an accepted start has just made: its number and
\* its local state after the handler's macrotask
StartAccepted == lastEvent.route = "execute" /\ lastEvent.code = 200
StartedRun == IF lastEvent.finalized THEN lastEvent.run ELSE runs[nextRun - 1]
StartedRes == IF lastEvent.finalized THEN lastEvent.res ELSE heap[nextRun - 1]

RECURSIVE ValueAt(_, _, _)
ValueAt(context, names, n) ==
  IF n = 0 THEN context ELSE GetKey(ValueAt(context, names, n - 1), names[n])

\* the first n keys of names exist along the walk
RECURSIVE KeysExist(_, _, _)
KeysExist(context, names, n) ==
  \/ n = 0
  \/ /\ KeysExist(context, names, n - 1)
     /\ IsObject(ValueAt(context, names, n - 1))
     /\ HasKey(ValueAt(context, names, n - 1), names[n])

\* the key names an expression's dot-path stands for (an empty path is the
\* single empty key)
PathNames(e) == IF e.keys = <<>> THEN <<"">> ELSE e.keys
Wrapped(e) == e.pre = Open /\ e.suf = Close

\* C15: resolveValue returns a string that is not wrapped in the marker pair
\* unchanged; for a wrapped dot-path it returns the value reached by walking
\* the context when every key exists and null as soon as a key is missing or
\* an intermediate value is not an object
C15_ResolveIsTotal ==
  (probe.op = "resolveValue" /\ probe.returned) =>
    LET e == probe.expr
        names == PathNames(e)
    IN probe.value =
         IF ~Wrapped(e) THEN probe.path
         ELSE IF KeysExist(probe.context, names, Len(names))
              THEN ValueAt(probe.context, names, Len(names))
              ELSE Null

\* C15 witness: a padded three-key path was resolved to an array element
C15_Witness ==
  /\ probe.op = "resolveValue" /\ probe.returned
  /\ probe.expr.keys = <<"a", "b", "0">> /\ probe.expr.lpad = <<" ">>
  /\ Wrapped(probe.expr)
  /\ probe.value = Num(1)


\* C12: every action of unknown type, also one nested in a forEach, is
\* rejected by validation, so that no run reaches executeAction with an
\* unknown action type
C12_UnknownTypeNeverDispatched ==
  /\ \A r \in Runs : ~runs[r].unknownDispatched
  /\ lastEvent.finalized => ~Fin.unknownDispatched


\* the forEach step of a workflow of ForEachWorkflow and the nested actions
IsForEachWorkflow(w) ==
  /\ HasStep(w, "s2")
  /\ StepById(w, "s2").actions[1].type = "forEach"
  /\ StepById(w, "s2").actions[1].list = ResultPath("s1", PostsWord)
NestedOf(w) == StepById(w, "s2").actions[1].actions

\* the value the last forEach call of the folded step s2 returned
ForEachReturned(res) ==
  LET entries == SelectSeq(res.results["s2"].results, LAMBDA e : e.action = "forEach")
  IN entries[Len(entries)].result

\* the list the forEach iterated: the posts step s1 found
PostsFound(res) == res.results["s1"].results[1].result.v.posts.v

\* the statement of C13 for a run with local state run and result res
ForEachProcessedAll(run, res) ==
  /\ (IsForEachWorkflow(run.wf) /\ res.results["s1"].kind = "ok"
        /\ Len(StepById(run.wf, "s2").actions) = 1)
       => res.results["s2"].kind # "failed"
  /\ (IsForEachWorkflow(run.wf) /\ res.results["s2"].kind = "ok") =>
    LET V == ForEachReturned(res).v
        list == PostsFound(res)
        nested == NestedOf(run.wf)
    IN /\ V.success = Bool(TRUE)
       /\ V.processedItems = Num(Len(list))
       /\ Len(V.results.v) = Len(list)
       /\ \A i \in 1..Len(list) :
            LET it == V.results.v[i].v
            IN /\ it.index = Num(i - 1)
               /\ it.item = list[i]
               /\ Len(it.results.v) = Len(nested)
               /\ \A j \in 1..Len(nested) :
                    it.results.v[j].v.success =
                      Bool(nested[j].type = "if"
                           \/ (nested[j].type \in validTypes /\ <<i - 1, j>> \notin run.nestedFailed))

\* C13: a forEach over a list of N items processes all N items in index
\* order whatever nested actions fail: its step does not fail, it returns
\* success = true and processedItems = N, results[i] carries index i and item i, and a nested
\* action is recorded with success = false exactly on the items where it failed
C13_ForEachProcessesEveryItem ==
  /\ \A r \in Runs : InFlight(r) => ForEachProcessedAll(runs[r], heap[r])
  /\ lastEvent.finalized => ForEachProcessedAll(Fin, FinRes)

\* C13 witness: a forEach over MaxItems items returned although the nested
\* action of its second item failed and that of its first did not
C13_Witness ==
  /\ lastEvent.finalized
  /\ IsForEachWorkflow(Fin.wf) /\ FinRes.results["s2"].kind = "ok"
  /\ NestedOf(Fin.wf) = <<Action("likePost")>>
  /\ Fin.nestedFailed = {<<1, 1>>}
  /\ ForEachReturned(FinRes).v.processedItems = Num(MaxItems)


\* the if step of a workflow of IfWorkflow, its action and its two edges
IsIfWorkflow(w) ==
  /\ HasStep(w, "s2")
  /\ StepById(w, "s2").actions[1].type = "if"
IfOf(w) == StepById(w, "s2").actions[1]
BranchTarget(w, label) ==
  LET e == CHOOSE x \in Range(w.edges) : x.source = "s2" /\ x.sourceHandle = label
  IN e.target

\* the conditionResult the folded if step s2 carries
ConditionOf(res) == res.results["s2"].results[1].result.v.conditionResult.v

\* the statement of C14 for a run with local state run and result res
BranchFollowsCondition(run, res) ==
  (IsIfWorkflow(run.wf) /\ res.results["s2"].kind = "ok") =>
    LET c == ConditionOf(res)
        k == Len(PostsFound(res))
        a == IfOf(run.wf)
        target == BranchTarget(run.wf, IF c THEN "onTrue" ELSE "onFalse")
    IN /\ run.visitOrder[1] = "s1" /\ run.visitOrder[2] = "s2"
       /\ Len(run.visitOrder) = 3 /\ run.visitOrder[3] = target
       /\ (a.variable = ResultPath("s1", PostsWord) /\ a.operator = "isNotEmpty") => c = (k > 0)
       /\ (a.variable = ResultPath("s1", CountWord) /\ a.operator = "greaterThan") => c = (k > 1)

\* C14: after a step whose single action is an if, with one outgoing edge
\* labelled onTrue and one labelled onFalse, the run goes to the onTrue target
\* when conditionResult is true and to the onFalse target when it is false; an
\* empty list with isNotEmpty gives false, a number greater than the value
\* with greaterThan gives true
C14_IfBranchFollowsConditionResult ==
  /\ \A r \in Runs : InFlight(r) => BranchFollowsCondition(runs[r], heap[r])
  /\ lastEvent.finalized => BranchFollowsCondition(Fin, FinRes)

\* C14 witness: an empty list with isNotEmpty has sent a run down the onFalse
\* edge, which is listed after the onTrue edge
C14_Witness ==
  /\ lastEvent.finalized /\ IsIfWorkflow(Fin.wf) /\ FinRes.results["s2"].kind = "ok"
  /\ IfOf(Fin.wf).operator = "isNotEmpty" /\ PostsFound(FinRes) = <<>>
  /\ ~ConditionOf(FinRes)
  /\ Fin.wf.edges[2].sourceHandle = "onTrue"
  /\ Fin.visitOrder = <<"s1", "s2", BranchTarget(Fin.wf, "onFalse")>>


\* run r has returned in the last macrotask: its result is stamped and stored
\* and its id is out of the running registry
Finalized(r) ==
  /\ lastEvent.finalized /\ lastEvent.ref = r
  /\ FinRes.endTime = "final"
  /\ results[Fin.wf.id] = r /\ heap[r] = FinRes
  /\ runningWorkflows[Fin.wf.id] = 0

\* C16: if every awaited action returns or fails, every started run
\* finalizes: endTime is stamped, its WorkflowResult is in the store and its id
\* has left the running registry, also for graphs with cycles
C16_EveryRunFinalizes == \A r \in Runs : InFlight(r) ~> Finalized(r)

\* C16 witness: a run of the two-step cycle has entered both steps and returned
C16_Witness ==
  /\ \E r \in Runs : Finalized(r)
  /\ Fin.wf = CyclicWorkflow(MaxAttempts)
  /\ Fin.visitOrder = <<"s1", "s2">>

\* the store holds for id the WorkflowResult of a run that has returned, as
\* the return left it
StoredFinal(id) == results[id] \in Runs /\ heap[results[id]].endTime = "final"

\* C17: while the store keeps the finalized WorkflowResult of a run under its
\* id (no clear, no later run of the id stored in its place), no operation,
\* in particular no stop(id), changes any field of it
C17_FinalizedResultIsFrozen ==
  [][\A id \in WorkflowIds :
       StoredFinal(id) /\ results'[id] = results[id]
         => heap'[results[id]] = heap[results[id]]]_vars

\* s has no two equal elements
NoRepeat(s) == \A i, j \in 1..Len(s) : s[i] = s[j] => i = j

IsPrefix(s, t) == Len(s) <= Len(t) /\ \A i \in 1..Len(s) : t[i] = s[i]

\* the run with locals `run` and WorkflowResult `res` has entered no step
\* twice and listed every step it folded once
EnteredOnce(run, res) ==
  /\ NoRepeat(run.visitOrder)
  /\ NoRepeat(res.executedSteps \o res.failedSteps)
  /\ Range(res.executedSteps \o res.failedSteps) \subseteq Range(run.visitOrder)
  /\ \A s \in StepIds : res.results[s] # NoResult => s \in Range(run.visitOrder)

\* from WorkflowResult a to b the two lists are extended at their ends and no
\* entry of the results map is removed or written again
Grows(a, b) ==
  /\ IsPrefix(a.executedSteps, b.executedSteps)
  /\ IsPrefix(a.failedSteps, b.failedSteps)
  /\ \A s \in StepIds : a.results[s] # NoResult => b.results[s] = a.results[s]

\* C18: within one run every step id is entered at most once, results[stepId]
\* is written at most once, and until the run returns the results map,
\* executedSteps and failedSteps only grow
C18_EachStepAtMostOnce ==
  [][/\ \A r \in Runs : InFlight(r) =>
          EnteredOnce(runs[r], heap[r]) /\ Grows(heap[r], heap'[r])
     /\ lastEvent'.finalized => EnteredOnce(lastEvent'.run, lastEvent'.res)]_vars

\* C18 witness: a run has returned because the edge out of its last step led
\* to a step it had entered before
C18_Witness ==
  /\ lastEvent.finalized
  /\ Fin.cur # NoStep /\ Fin.cur \in Range(Fin.visitOrder)
  /\ Len(FinRes.executedSteps) + Len(FinRes.failedSteps) = 2

\* the step a run was in when the first stop request for its id was answered
StoppedIn(run) == run.visitOrder[run.stopMark]

\* the step the stop came in has run as a step does without a stop: folded as
\* ok, its last attempt has called every action of the step and its forEach
\* has gone through every item; folded as failed, its attempts are used up
StepRanToItsEnd(run, res) ==
  LET s == StoppedIn(run)
      step == StepById(run.wf, s)
      sr == res.results[s]
      n == Len(step.actions)
  IN /\ sr.kind = "ok" =>
          /\ Len(sr.results) >= n
          /\ \A j \in 1..n : sr.results[Len(sr.results) - n + j].action = step.actions[j].type
          /\ step.actions[1].type = "forEach" =>
               /\ ForEachReturned(res).v.processedItems = Num(Len(PostsFound(res)))
               /\ Len(ForEachReturned(res).v.results.v) = Len(PostsFound(res))
     /\ sr.kind = "failed" => sr.attempts = MaxAttemptsOf(step)
     /\ sr.kind # "skipped"

\* C19: a stop answered while a run is inside a step skips nothing of that
\* step: the step is folded before the run returns, with every remaining
\* action called, every remaining retry attempt made and every remaining item
\* of a forEach processed
C19_StopSkipsNothingOfTheStep ==
  /\ \A r \in Runs : (InFlight(r) /\ runs[r].stopMark > 0) =>
       StepRanToItsEnd(runs[r], heap[r])
  /\ (lastEvent.finalized /\ Fin.stopMark > 0) =>
       /\ FinRes.results[StoppedIn(Fin)].kind # "none"
       /\ StepRanToItsEnd(Fin, FinRes)

\* C19 witness: the stop came in the first attempt of a step, during the
\* first item of its forEach; the forEach went through MaxItems items, the
\* action after it was called and threw, and the step succeeded in a later attempt
C19_Witness ==
  /\ lastEvent.finalized /\ Fin.stopMark = 2
  /\ Fin.stopAt = [attempts |-> 1, ai |-> 1, item |-> 1]
  /\ Len(StepById(Fin.wf, "s2").actions) = 2
  /\ FinRes.results["s2"].kind = "ok" /\ FinRes.results["s2"].attempts = 2
  /\ Len(PostsFound(FinRes)) = MaxItems
  /\ ForEachReturned(FinRes).v.processedItems = Num(MaxItems)

\* the label the outcome sr selects: that of conditionResult when the
\* outcome carries one, otherwise that of success
OutcomeLabel(sr) ==
  IF HasConditionResult(sr)
  THEN IF Truthy(ResultOf(sr.results).v.conditionResult) THEN "onTrue" ELSE "onFalse"
  ELSE IF IsSuccess(sr) THEN "onTrue" ELSE "onFalse"

\* the first edge of out labelled h; 0 when there is none
FirstWith(out, h) ==
  IF \E i \in 1..Len(out) : out[i].sourceHandle = h
  THEN CHOOSE i \in 1..Len(out) :
         out[i].sourceHandle = h /\ \A j \in 1..(i - 1) : out[j].sourceHandle # h
  ELSE 0

\* C20: with several outgoing edges getNextStep returns the target of the
\* edge whose label matches the outcome; an edge without label is taken only
\* when no labelled edge matches; when nothing matches, the first edge is taken
C20_LabelledEdgeBeforeDefault ==
  (probe.op = "getNextStep" /\ probe.returned) =>
    LET out == probe.edges
        hit == FirstWith(out, OutcomeLabel(probe.outcome))
        default == FirstWith(out, "none")
    IN probe.value = IF hit # 0 THEN out[hit].target
                     ELSE IF default # 0 THEN out[default].target
                     ELSE out[1].target

\* the position of step s in the order of entry; 0 when it was not entered
EnteredAt(run, s) ==
  IF s \in Range(run.visitOrder)
  THEN CHOOSE k \in 1..Len(run.visitOrder) : run.visitOrder[k] = s
  ELSE 0

\* what the results map held for the step named by the condition of s when s
\* was entered: the StepResult of a step entered before s, nothing otherwise
PreviousAt(run, res, s) ==
  LET prev == StepById(run.wf, s).condition.previousStep
  IN IF EnteredAt(run, prev) # 0 /\ EnteredAt(run, prev) < EnteredAt(run, s)
     THEN res.results[prev] ELSE NoResult

\* the condition of s is success or failure on a named step whose recorded
\* success was not the one asked for when s was entered
ConditionMissed(run, res, s) ==
  LET cond == StepById(run.wf, s).condition
      prev == PreviousAt(run, res, s)
  IN /\ cond.type \in {"success", "failure"} /\ cond.previousStep # NoStep
     /\ ~(cond.type = "success" /\ prev.kind = "ok")
     /\ ~(cond.type = "failure" /\ prev.kind = "failed")

\* the statement of C21 for a run with local state run and result res
SkippedAndPassed(run, res) ==
  \A s \in StepIds :
    (HasStep(run.wf, s) /\ EnteredAt(run, s) # 0 /\ ConditionMissed(run, res, s)) =>
      LET k == EnteredAt(run, s)
          next == getNextStep(run.wf, s, SkippedResult)
      IN /\ res.results[s] = SkippedResult
         /\ run.dispatched[s] = 0
         /\ s \notin Range(res.executedSteps \o res.failedSteps)
         /\ IF k < Len(run.visitOrder) THEN run.visitOrder[k + 1] = next
            ELSE /\ run.pc = "done"
                 /\ next = NoStep \/ next \in Range(run.visitOrder) \/ run.interrupted

\* C21: a step whose condition is success or failure and is not met by the
\* recorded success of the step it names is folded as skipped, with no action
\* dispatched and no attempt counted, and the run goes on to the next step
C21_UnmetConditionSkipsTheStep ==
  /\ \A r \in Runs : InFlight(r) => SkippedAndPassed(runs[r], heap[r])
  /\ lastEvent.finalized => SkippedAndPassed(Fin, FinRes)

\* C21 witness: s2 asked for a failure of s1, s1 succeeded, s2 was skipped and
\* s3 was run
C21_Witness ==
  /\ lastEvent.finalized
  /\ Fin.wf = CondWorkflow("failure", "s1", "absent")
  /\ FinRes.results["s1"].kind = "ok"
  /\ FinRes.results["s2"] = SkippedResult
  /\ FinRes.executedSteps = <<"s1", "s3">>

\* the calls of executeAction made for the step a run is in follow the
\* declaration order within an attempt, stop at the first call that threw,
\* and start again at the first action in every attempt
DispatchedInOrder(run) ==
  LET log == run.log
      step == StepById(run.wf, run.visitOrder[Len(run.visitOrder)])
  IN /\ Len(log) > 0 => log[1] = <<1, 1>>
     /\ \A k \in 1..(Len(log) - 1) :
          IF log[k] \in run.threw
          THEN log[k + 1] = <<log[k][1] + 1, 1>>
          ELSE log[k + 1] = <<log[k][1], log[k][2] + 1>>
     /\ \A k \in 1..Len(log) :
          /\ log[k][2] <= Len(step.actions)
          /\ log[k][1] <= MaxAttemptsOf(step)
     /\ run.threw \subseteq Range(log)

\* C22: within one attempt of a step the actions are dispatched in
\* declaration order, no action of the attempt is dispatched after the first
\* one that fails, and every retry attempt starts at the step's first action
C22_ActionsInOrderPerAttempt ==
  /\ \A r \in Runs : InFlight(r) => DispatchedInOrder(runs[r])
  /\ (lastEvent.finalized /\ Fin.log # <<>>) => DispatchedInOrder(Fin)

\* C22 witness: the second action of a two-action step threw in the first
\* attempt and the second attempt has called the first action again
C22_Witness ==
  \E r \in Runs :
    /\ InFlight(r)
    /\ Len(StepById(runs[r].wf, runs[r].cur).actions) = 2
    /\ runs[r].log = <<<<1, 1>>, <<1, 2>>, <<2, 1>>>>
    /\ runs[r].threw = {<<1, 2>>}

\* v is null, undefined, the empty string or the empty list
IsEmptyValue(v) ==
  \/ v.t \in {"null", "undefined"}
  \/ v.t \in {"string", "array"} /\ v.v = <<>>

\* C23: an if with isNotEmpty in a step yields conditionResult = false when
\* its variable resolves to null, undefined, the empty string or the empty
\* list and true for every other value, the number 0, the boolean false and
\* objects included
C23_IsNotEmptyOnEveryValue ==
  (probe.op = "if" /\ probe.returned /\ probe.operator = "isNotEmpty") =>
    probe.value.v.conditionResult = Bool(~IsEmptyValue(probe.v))

\* v and w are the same primitive value
SamePrimitive(v, w) == v.t = w.t /\ v.t \notin {"array", "object"} /\ v.v = w.v

\* C24: an if in a step whose variable resolves to v and whose value is w
\* yields, for equals, true exactly when v === w, and for greaterThan and
\* lessThan true exactly when both are numbers and v > w, v < w, for every
\* number v, 0 included
C24_ComparisonsOnEveryValue ==
  (probe.op = "if" /\ probe.returned) =>
    LET v == probe.v
        w == probe.w
        numbers == v.t = "number" /\ w.t = "number"
    IN /\ probe.operator = "equals" =>
            probe.value.v.conditionResult = Bool(SamePrimitive(v, w))
       /\ probe.operator = "greaterThan" =>
            probe.value.v.conditionResult = Bool(numbers /\ v.v > w.v)
       /\ probe.operator = "lessThan" =>
            probe.value.v.conditionResult = Bool(numbers /\ v.v < w.v)

\* a workflow of RefCatalog and the step its if refers to
IsRefWorkflow(w) == w \in RefCatalog
RefOf(w) == CHOOSE ref \in StepIds : w = RefWorkflow(ref)

\* the count the one action of step s returned when s was folded as ok before
\* step `at` was entered; null for a step that was not run before `at`, was
\* skipped or failed
CountFoldedBefore(run, res, s, at) ==
  IF /\ EnteredAt(run, s) # 0 /\ EnteredAt(run, s) < EnteredAt(run, at)
     /\ res.results[s].kind = "ok"
  THEN res.results[s].results[1].result.v.count
  ELSE Null

\* the statement of C25 for a run with local state run and result res
ResolvedAtDispatch(run, res) ==
  (IsRefWorkflow(run.wf) /\ EnteredAt(run, "s3") # 0) =>
    run.resolved = CountFoldedBefore(run, res, RefOf(run.wf), "s3")

\* C25: the templates of an action rooted at `steps` are resolved when the
\* action is dispatched, against the StepResults of the steps folded before
\* it in the run; a reference to a step that has not run, was skipped or
\* failed resolves to null
C25_ResolvedAgainstFoldedResults ==
  /\ \A r \in Runs : InFlight(r) => ResolvedAtDispatch(runs[r], heap[r])
  /\ lastEvent.finalized => ResolvedAtDispatch(Fin, FinRes)

\* C25 witness: the if of s3 got the count MaxItems that s2 returned after s1
\* had failed
C25_Witness ==
  /\ lastEvent.finalized
  /\ Fin.wf = RefWorkflow("s2")
  /\ FinRes.results["s1"].kind = "failed"
  /\ Fin.resolved = Num(MaxItems)

\* the statement of C26 for a run with local state run and result res: each
\* nested call got the item it was made for where its action names `item`,
\* and the count s1 returned where its action names that count
NestedResolved(run, res) ==
  IsForEachWorkflow(run.wf) =>
    \A k \in 1..Len(run.nestedLog) :
      LET e == run.nestedLog[k]
          sub == NestedOf(run.wf)[e.j]
      IN /\ sub.variable = Str(Open \o ItemWord \o Close) =>
              e.variable = PostsFound(res)[e.i]
         /\ sub.value = ResultPath("s1", CountWord) =>
              e.value = Num(Len(PostsFound(res)))
         /\ sub.variable = Undefined => e.variable = Undefined
         /\ sub.value = Undefined => e.value = Undefined

\* C26: inside a forEach the params of a nested action rooted at `item` are
\* resolved against the item being processed and those rooted at `steps`
\* against the results the run has accumulated, for each nested call
C26_NestedParamsSeeItemAndContext ==
  /\ \A r \in Runs : InFlight(r) => NestedResolved(runs[r], heap[r])
  /\ lastEvent.finalized => NestedResolved(Fin, FinRes)

\* C26 witness: the nested if of the second of two items got that item and
\* the count 2 of s1
C26_Witness ==
  /\ lastEvent.finalized
  /\ IsForEachWorkflow(Fin.wf)
  /\ \E k \in 1..Len(Fin.nestedLog) :
       /\ Fin.nestedLog[k].i = 2
       /\ Fin.nestedLog[k].variable = Str(<<ItemChars[2]>>)
       /\ Fin.nestedLog[k].value = Num(2)

\* the statement of C27 for a run with local state run and result res
NonArrayListFails(run, res) ==
  (run.wf \in BadListCatalog /\ res.results["s1"].kind = "ok") =>
    /\ run.nestedLog = <<>>
    /\ ~run.fe.active
    /\ (run.cur = "s2" /\ "s2" \in run.visited) =>
         /\ run.pc # "action"
         /\ \A k \in 1..Len(run.log) : run.log[k] \in run.threw
         /\ \A a \in 1..run.attempts : <<a, 1>> \in run.threw
    /\ res.results["s2"].kind \in {"none", "failed"}
    /\ res.results["s2"].kind = "failed" =>
         /\ res.results["s2"].results = <<>>
         /\ res.results["s2"].attempts >= 1
         /\ "s2" \in Range(res.failedSteps)

\* C27: a forEach whose list does not resolve to an array fails at once as
\* an action failure, no nested action is called, and the failure counts as a
\* failed attempt of its step
C27_NonArrayListFailsTheAction ==
  /\ \A r \in Runs : InFlight(r) => NonArrayListFails(runs[r], heap[r])
  /\ lastEvent.finalized => NonArrayListFails(Fin, FinRes)

\* C27 witness: the forEach over the number s1 counted failed its step after
\* MaxAttempts attempts
C27_Witness ==
  /\ lastEvent.finalized
  /\ Fin.wf = BadListWorkflow(ResultPath("s1", CountWord), MaxAttempts)
  /\ FinRes.results["s1"].kind = "ok"
  /\ FinRes.results["s1"].results[1].result.v.count = Num(MaxItems)
  /\ FinRes.results["s2"].kind = "failed"
  /\ FinRes.results["s2"].attempts = MaxAttempts
  /\ Fin.nestedLog = <<>>

\* the statement of C28 for a run with local state run and result res: for
\* each step folded as successful, with n declared actions, the last n entries
\* of its results are those of the successful attempt
ResultFolded(run, res) ==
  \A s \in StepIds :
    res.results[s].kind = "ok" =>
      LET entries == res.results[s].results
          n == Len(StepById(run.wf, s).actions)
          V == StepValue(res.results[s]).v
      IN /\ Len(entries) >= n
         /\ \A k \in 1..n :
              entries[Len(entries) - n + k].action = StepById(run.wf, s).actions[k].type
         /\ n = 1 => V.result = entries[Len(entries)].result
         /\ n # 1 => V.result = V.results
         /\ V.result = entries[Len(entries)].result <=> n = 1

\* C28: the `result` of a successful StepResult is the result of the step's
\* one action exactly when the step declares one action, and the list of the
\* step's action results otherwise, after any number of failed attempts
C28_ResultIsLoneOrList ==
  /\ \A r \in Runs : InFlight(r) => ResultFolded(runs[r], heap[r])
  /\ lastEvent.finalized => ResultFolded(Fin, FinRes)

\* C28 witness: a step of two actions succeeded on its second attempt and its
\* result is a list
C28_Witness ==
  /\ lastEvent.finalized
  /\ \E s \in StepIds :
       /\ FinRes.results[s].kind = "ok"
       /\ FinRes.results[s].attempts = 2
       /\ Len(StepById(Fin.wf, s).actions) = 2
       /\ StepValue(FinRes.results[s]).v.result.t = "array"

\* the positions of the declared steps no edge points at
WithoutIncoming(ids, ts) == {i \in 1..Len(ids) : ids[i] \notin Range(ts)}

\* C29: findInitialStep returns none for a workflow without steps; else the
\* first declared step when there are no edges or every step is the target of
\* an edge, and else the first step in declaration order that is the target
\* of no edge
C29_InitialStep ==
  (probe.op = "findInitialStep" /\ probe.returned) =>
    LET ids == probe.ids
        free == WithoutIncoming(ids, probe.targets)
    IN /\ ids = <<>> => probe.value = NoStep
       /\ (ids # <<>> /\ probe.targets = <<>>) => probe.value = ids[1]
       /\ (ids # <<>> /\ probe.targets # <<>> /\ free = {}) => probe.value = ids[1]
       /\ (probe.targets # <<>> /\ free # {}) =>
            \E i \in free : /\ probe.value = ids[i]
                            /\ \A j \in free : i <= j

\* C29 witness: with edges to the first and the last of three steps the
\* second step is returned
C29_Witness ==
  /\ probe.op = "findInitialStep" /\ probe.returned
  /\ probe.ids = <<"s1", "s2", "s3">>
  /\ Range(probe.targets) = {"s1", "s3"}
  /\ probe.value = "s2"

\* a parameter with every string leaf resolved, at any depth of lists
RECURSIVE EveryLeafResolved(_, _, _)
EveryLeafResolved(p, context, item) ==
  IF p.t = "string" THEN resolveValue(p, context, item)
  ELSE IF p.t = "array"
       THEN Arr([i \in 1..Len(p.v) |-> EveryLeafResolved(p.v[i], context, item)])
       ELSE p

\* C30: resolveActionParams resolves every string leaf of a parameter,
\* those inside lists at any depth included, and leaves every other leaf
\* as it is
C30_EveryStringLeafResolved ==
  (probe.op = "resolveActionParams" /\ probe.returned) =>
    probe.value = EveryLeafResolved(probe.param, ContextOf(ResultsWith(probe.count)),
                                    probe.item)

\* C31: a workflow id is in the running registry exactly while a run of that
\* id is in flight, and the entry is that of the run in flight: it is not
\* removed by stop nor by the return of an earlier run of the same id
C31_RegistryIsTheRunsInFlight ==
  \A id \in WorkflowIds :
    /\ IsRunning(id) <=> PendingRuns(id) # {}
    /\ IsRunning(id) => runningWorkflows[id] \in PendingRuns(id)

\* C32: once stop(id) was accepted for a run in flight, the stored result of
\* id is that run's and carries the sentinel until the run finalizes, whatever
\* clear or start of the same id comes in between; the run enters no further
\* step and the stored result carries the sentinel when it has finalized
C32_SentinelIsNeverLost ==
  /\ \A r \in Runs :
       (InFlight(r) /\ runs[r].stopMark > 0) =>
         /\ results[runs[r].wf.id] = r
         /\ Interrupted(runs[r].wf.id)
         /\ Len(runs[r].visitOrder) = runs[r].stopMark
  /\ (lastEvent.finalized /\ Fin.stopMark > 0) =>
       /\ Interrupted(Fin.wf.id)
       /\ FinRes.error = Sentinel
       /\ Len(Fin.visitOrder) = Fin.stopMark

\* the runs that await an action on instance i
ActionsInFlight(i) == {r \in Runs : runs[r].pc = "action" /\ runs[r].inst = i}

\* C33: at any time at most one action is in flight on an instance, also
\* when workflows of distinct ids run on the same instance
C33_OneActionPerInstance ==
  \A i \in Instances : Cardinality(ActionsInFlight(i)) <= 1

\* the statement of C34 for a run with local state run and result res
ListsAgreeWithResults(run, res) ==
  /\ NoRepeat(res.executedSteps)
  /\ NoRepeat(res.failedSteps)
  /\ Range(res.executedSteps) \cap Range(res.failedSteps) = {}
  /\ \A s \in Range(res.executedSteps) : HasStep(run.wf, s) /\ res.results[s].kind = "ok"
  /\ \A s \in Range(res.failedSteps) : HasStep(run.wf, s) /\ res.results[s].kind = "failed"
  /\ \A s \in StepIds :
       res.results[s].kind = "skipped" =>
         /\ HasStep(run.wf, s)
         /\ s \notin Range(res.executedSteps) \cup Range(res.failedSteps)
  /\ (run.pc = "done" /\ run.visitOrder # <<>>
        /\ \A s \in Range(run.visitOrder) : res.results[s].kind = "skipped")
       => ~res.success

\* C34: in every state of a run executedSteps and failedSteps have no
\* repeated id and no id in common, each of their ids is a declared step with
\* an entry in results, and a skipped step has an entry in results and is in
\* neither list, so that a run that skipped all its steps ends with
\* success = false
C34_StepListsAreConsistent ==
  /\ \A r \in Runs : InFlight(r) => ListsAgreeWithResults(runs[r], heap[r])
  /\ lastEvent.finalized => ListsAgreeWithResults(Fin, FinRes)

\* C34 witness: a run has skipped each of its three steps and returned
C34_Witness ==
  /\ lastEvent.finalized
  /\ Len(Fin.visitOrder) = 3
  /\ \A s \in Range(Fin.visitOrder) : FinRes.results[s].kind = "skipped"
  /\ FinRes.executedSteps = <<>> /\ FinRes.failedSteps = <<>>
  /\ ~FinRes.success

\* the statement of C35 for a run with local state run and result res
OneEntryPerAction(run, res) ==
  \A s \in StepIds :
    (res.results[s].kind = "ok" /\ res.results[s].attempts > 1) =>
      LET entries == res.results[s].results
          actions == StepById(run.wf, s).actions
      IN /\ Len(entries) = Len(actions)
         /\ \A k \in 1..Len(actions) : entries[k].action = actions[k].type

\* C35: the results of a step that succeeded on a second or later attempt
\* hold one entry per declared action, in declaration order, and none of the
\* entries recorded during the failed attempts
C35_RetryKeepsNoEarlierEntries ==
  /\ \A r \in Runs : InFlight(r) => OneEntryPerAction(runs[r], heap[r])
  /\ lastEvent.finalized => OneEntryPerAction(Fin, FinRes)

\* the statement of C36 for a run with local state run and result res
SkipsCascade(run, res) ==
  \A s \in StepIds :
    (/\ HasStep(run.wf, s) /\ EnteredAt(run, s) # 0
     /\ StepById(run.wf, s).condition.type \in {"success", "failure"}
     /\ StepById(run.wf, s).condition.previousStep # NoStep
     /\ PreviousAt(run, res, s).kind \in {"none", "skipped"}) =>
      /\ res.results[s].kind = "skipped"
      /\ run.dispatched[s] = 0

\* C36: a step whose condition is success or failure on a step that has no
\* recorded result yet, or was skipped, is skipped itself, so that skips go
\* down a chain of conditioned steps
C36_SkipsCascade ==
  /\ \A r \in Runs : InFlight(r) => SkipsCascade(runs[r], heap[r])
  /\ lastEvent.finalized => SkipsCascade(Fin, FinRes)

\* C36 witness: s1 waits for the failure of s3, which has not run, s2 for the
\* failure of s1 and s3 for the success of s2: all three were skipped
C36_Witness ==
  /\ lastEvent.finalized
  /\ Fin.wf = ChainWorkflow("failure", "failure", TRUE)
  /\ Fin.visitOrder = <<"s1", "s2", "s3">>
  /\ \A s \in {"s1", "s2", "s3"} : FinRes.results[s] = SkippedResult

\* a successful step of several actions one of which is an if
IsMultiActionOutcome(sr) ==
  /\ sr.kind = "ok" /\ Len(sr.results) > 1
  /\ \E k \in 1..Len(sr.results) : sr.results[k].action = "if"

\* the edge getNextStep followed: the targets of the edges leaving s1 differ
TakenEdge ==
  probe.edges[CHOOSE i \in 1..Len(probe.edges) : probe.edges[i].target = probe.value]

\* the first edge of out labelled onTrue or without label; 0 when there is none
FirstTrueOrDefault(out) ==
  IF \E i \in 1..Len(out) : out[i].sourceHandle \in {"onTrue", "none"}
  THEN CHOOSE i \in 1..Len(out) :
         /\ out[i].sourceHandle \in {"onTrue", "none"}
         /\ \A j \in 1..(i - 1) : out[j].sourceHandle \notin {"onTrue", "none"}
  ELSE 0

\* C37 as stated: after a successful step of several actions getNextStep
\* follows an edge labelled onTrue or without label, never one labelled onFalse
C37_MultiActionNeverOnFalse ==
  (probe.op = "getNextStep" /\ probe.returned /\ IsMultiActionOutcome(probe.outcome)) =>
    /\ TakenEdge.sourceHandle \in {"onTrue", "none"}
    /\ TakenEdge.sourceHandle # "onFalse"

\* C37: after a successful step of several actions getNextStep ignores the
\* conditionResult of the if among them and follows the first edge labelled
\* onTrue or without label; only when no such edge leaves the step does it
\* follow the first outgoing edge, whatever its label, onFalse included
C37_MultiActionBranchesOnSuccess ==
  (probe.op = "getNextStep" /\ probe.returned /\ IsMultiActionOutcome(probe.outcome)) =>
    LET out == probe.edges
        t == FirstTrueOrDefault(out)
    IN /\ ~HasConditionResult(probe.outcome)
       /\ probe.value = IF t # 0 THEN out[t].target ELSE out[1].target
       /\ TakenEdge.sourceHandle = "onFalse" =>
            /\ probe.value = out[1].target
            /\ \A i \in 1..Len(out) : out[i].sourceHandle \notin {"onTrue", "none"}

\* a step of an if that evaluated to false and a second action, with an
\* onFalse edge declared before the onTrue edge: the onTrue edge is followed
C37_Witness ==
  /\ probe.op = "getNextStep" /\ probe.returned
  /\ IsMultiActionOutcome(probe.outcome)
  /\ probe.outcome.results[1].action = "if"
  /\ ~Truthy(probe.outcome.results[1].result.v.conditionResult)
  /\ Len(probe.edges) = 2
  /\ probe.edges[1].sourceHandle = "onFalse"
  /\ probe.edges[2].sourceHandle = "onTrue"
  /\ probe.value = probe.edges[2].target

\* traversal has reached a step id that is no declared step
ReachedUndeclared(run) == run.cur # NoStep /\ ~HasStep(run.wf, run.cur)

\* the run that reached an undeclared step id has ended without entering it,
\* nothing is recorded for that id, no top-level error is set but the one a
\* stop request put there, and success is the value of line 866
HaltsAtUndeclared(run, res) ==
  ReachedUndeclared(run) =>
    /\ run.pc = "done"
    /\ run.cur \notin Range(run.visitOrder)
    /\ run.cur \notin Range(res.failedSteps) \cup Range(res.executedSteps)
    /\ res.results[run.cur] = NoResult
    /\ res.error # NoError => (res.error = Sentinel /\ run.stopMark # 0)
    /\ res.success = SuccessPredicate(res)

\* C38: a run whose traversal reaches a step id that is no declared step
\* halts there: no failed step and no top-level error is recorded for it, and
\* success is failedSteps empty and executedSteps non-empty over the steps
\* already run
C38_UndeclaredStepHaltsQuietly ==
  /\ \A r \in Runs : InFlight(r) => ~ReachedUndeclared(runs[r])
  /\ lastEvent.finalized => HaltsAtUndeclared(Fin, FinRes)

\* C38 witness: s1 and s2 ran, the edge of s2 leads to s4, which is no step:
\* the run finalized with success = true and no error
C38_Witness ==
  /\ lastEvent.finalized
  /\ Fin.wf = DanglingWorkflow(2, "absent")
  /\ Fin.cur = "s4"
  /\ FinRes.executedSteps = <<"s1", "s2">>
  /\ FinRes.failedSteps = <<>>
  /\ FinRes.error = NoError
  /\ FinRes.success

====
